---- MODULE Spec2Model ----
(***************************************************************************)
(* APsystems-EZ1-mqtt: the MQTT handler (src/APsystemsEZ1mqtt/              *)
(* mqtthandler.py), the asyncio main program and its periodic tasks        *)
(* (src/apsystems_ez1_mqtt/main.py) and the ECU wrapper                     *)
(* (src/apsystems_ez1_mqtt/ecu.py).                                         *)
(*                                                                         *)
(* The specifications:                                                     *)
(*   SpecHandler  the MQTTHandler object: its publish operations called in *)
(*                any order against a broker whose connection comes and    *)
(*                goes, the connectivity check taken one wait at a time;   *)
(*   Spec         the process: main(), the periodic tasks, the command     *)
(*                callbacks of the broker client's thread and the command  *)
(*                tasks they hand to the event loop, each task taken from  *)
(*                one await to the next;                                   *)
(*   SpecBridge   the process at night, its periodic tasks asleep: the     *)
(*                command callbacks and the command tasks alone, with a    *)
(*                wide set of payloads; SpecNight is the same process     *)
(*                with the event loop's scheduling;                        *)
(*   SpecWill     Spec with a broker that loses the client and publishes   *)
(*                its last will;                                           *)
(*   SpecData     publish_data on a set of readings;                       *)
(*   SpecClock    the periodic tasks against a clock: the night window,    *)
(*                the sleep of each cycle and the time a request takes;    *)
(*   SpecStart    main() from its start to asyncio.gather, with the event  *)
(*                loop's scheduling;                                       *)
(*   SpecEcu      the construction of the ECU wrapper;                     *)
(*   SpecBeat     the event loop's thread against a clock of seconds,     *)
(*                with the blocking wait of the connectivity check;        *)
(*   SpecSub      the client's subscriptions over connections.             *)
(***************************************************************************)
EXTENDS Integers, Sequences, FiniteSets, TLC

VARIABLES
    cfg,        \* Config: mqtt_config / ecu_config fields and the CLI arguments
    connected,  \* client.is_connected() of the paho client
    retained,   \* the broker's retained messages: topic -> payload
    pub,        \* SpecHandler: the publish operation in progress
    ops,        \* SpecHandler: the handler operations that returned (did not raise) so far
                \* SpecSub: the topics the broker holds subscribed for the client
    main_pc,    \* position of main()
    data,       \* the task periodic_get_data
    power,      \* the task periodic_get_power
    cmds,       \* the command tasks awaiting their write, in the order they started
    ready,      \* the event loop's thread-safe hand-off queue (call_soon_threadsafe)
    dev,        \* the inverter: its power status and max power limit
    delivered,  \* the number of inbound messages given to a callback so far
    ev,         \* the latest step: what it was given, what it raised, what it published
    clock       \* SpecClock: datetime.now(), in ticks since midnight of day 0

vars == <<cfg, connected, retained, pub, ops, main_pc, data, power, cmds, ready, dev, delivered, ev, clock>>

(***************************************************************************)
(* Bounds of the model.                                                    *)
(***************************************************************************)
MaxOps == 3     \* SpecHandler: handler operations called in one behaviour
MaxCmds == 1    \* Spec: inbound messages delivered in one behaviour
MaxBridgeCmds == 2  \* SpecBridge: inbound messages delivered in one behaviour

(***************************************************************************)
(* Strings.                                                                *)
(***************************************************************************)
None == "None"      \* Python's None

\* str.replace(old, new)
RECURSIVE Replace(_, _, _)
Replace(s, old, new) ==
    IF Len(s) < Len(old) THEN s
    ELSE IF SubSeq(s, 1, Len(old)) = old
         THEN new \o Replace(SubSeq(s, Len(old) + 1, Len(s)), old, new)
         ELSE SubSeq(s, 1, 1) \o Replace(SubSeq(s, 2, Len(s)), old, new)

UpperCase == "ABCDEFGHIJKLMNOPQRSTUVWXYZ"
LowerCase == "abcdefghijklmnopqrstuvwxyz"

LowerChar(c) ==
    IF \E i \in 1..Len(UpperCase) : SubSeq(UpperCase, i, i) = c
    THEN LET i == CHOOSE i \in 1..Len(UpperCase) : SubSeq(UpperCase, i, i) = c
         IN SubSeq(LowerCase, i, i)
    ELSE c

\* str.lower()
RECURSIVE Lower(_)
Lower(s) ==
    IF Len(s) = 0 THEN ""
    ELSE LowerChar(SubSeq(s, 1, 1)) \o Lower(SubSeq(s, 2, Len(s)))

(***************************************************************************)
(* The registry _mqtt_d, in its order.                                     *)
(***************************************************************************)
\* min and max are 0 in a row that has none: _hass_config skips a missing and a
\* falsy value alike.
Row(k, t, ty, r, u, c, cl, mn, mx) ==
    [key |-> k, topic |-> t, type |-> ty, room |-> r, unit |-> u, comp |-> c, class |-> cl,
     min |-> mn, max |-> mx]

mqtt_d == <<
    Row("pt", "Power",              "text",   "Home", " W",   "sensor", "power", 0, 0),
    Row("p1", "Power P1",           "text",   "",     " W",   "sensor", "power", 0, 0),
    Row("p2", "Power P2",           "text",   "",     " W",   "sensor", "power", 0, 0),
    Row("et", "Energy today",       "text",   "Home", " kWh", "sensor", "energy", 0, 0),
    Row("e1", "Energy today P1",    "text",   "",     " kWh", "sensor", "energy", 0, 0),
    Row("e2", "Energy today P2",    "text",   "",     " kWh", "sensor", "energy", 0, 0),
    Row("lt", "Energy lifetime",    "text",   "",     " kWh", "sensor", "_energy_increasing", 0, 0),
    Row("l1", "Energy lifetime P1", "text",   "",     " kWh", "sensor", "_energy_increasing", 0, 0),
    Row("l2", "Energy lifetime P2", "text",   "",     " kWh", "sensor", "_energy_increasing", 0, 0),
    Row("ps", "Power Status",       "switch", "",     "",     "switch", None, 0, 0),
    Row("po", "Power Max Output",   "text",   "",     " W",   "number", "power", 30, 800),
    Row("id", "Device id",          "text",   "",     "",     None,     None, 0, 0),
    Row("ip", "Device IP",          "text",   "",     "",     None,     None, 0, 0),
    Row("ve", "Version",            "text",   "",     "",     None,     None, 0, 0),
    Row("ti", "Start time",         "text",   "",     "",     "sensor", "_datetime", 0, 0),
    Row("wi", "State",              "text",   "",     "",     None,     None, 0, 0) >>

\* _mqtt_d[key]
D(key) == mqtt_d[CHOOSE i \in 1..Len(mqtt_d) : mqtt_d[i].key = key]

(***************************************************************************)
(* Configuration values that do not vary in the model.                     *)
(***************************************************************************)
ecu_info == [deviceId |-> "E17000001", ipAddr |-> "192.168.9.9", devVer |-> "EZ1 1.7.0"]
homa_systemid == "123456-solar"
topic_prefix == "aps/"
hass_device_id == ecu_info.deviceId
start_time == "2024-06-01T12:00:00+02:00"

(***************************************************************************)
(* The broker's retained store.                                            *)
(***************************************************************************)
NoRetained == [t \in {} |-> ""]

\* MQTTHandler._publish: client.publish(topic, msg, qos, retain). A retained
\* publish replaces the broker's retained message of the topic; a retained
\* publish of a zero-length payload (None or "") removes it.
_publish(ret, topic, msg, retain) ==
    IF ~retain THEN ret
    ELSE IF msg = None \/ msg = ""
         THEN [t \in DOMAIN ret \ {topic} |-> ret[t]]
         ELSE [t \in DOMAIN ret \cup {topic} |-> IF t = topic THEN msg ELSE ret[t]]

\* MQTTHandler._get_topic_base
_get_topic_base(c) ==
    IF c.homa_enabled THEN "/devices/" \o homa_systemid \o "/controls/"
    ELSE topic_prefix

\* self.retain = not args.debug
Retain(c) == ~c.debug

(***************************************************************************)
(* Python values handed between the tasks, the device client and the       *)
(* handler: None, a bool, an int, or a ReturnOutputData (an index into     *)
(* Readings).                                                              *)
(***************************************************************************)
PyNone == [t |-> "None", v |-> 0]
PyBool(b) == [t |-> "bool", v |-> IF b THEN 1 ELSE 0]
PyInt(n) == [t |-> "int", v |-> n]
PyData(i) == [t |-> "data", v |-> i]

\* ReturnOutputData: p1, p2 in W; e1, e2 in 0.001 kWh; te1, te2 in 0.1 kWh
Readings == <<
    [p1 |-> 120, p2 |-> 95, e1 |-> 1234, e2 |-> 987, te1 |-> 5432, te2 |-> 2100] >>

\* f'{n:d}'
FmtD(n) == ToString(n)

\* three decimals without the zeros that pad the fraction
Fmt3_unpadded(n) == ToString(n \div 1000) \o "." \o ToString(n % 1000)

\* f'{x:0.3f}' of x = n / 1000, n >= 0
Fmt3(n) ==
    LET f == n % 1000
    IN ToString(n \div 1000) \o "." \o
       (IF f < 10 THEN "00" ELSE IF f < 100 THEN "0" ELSE "") \o ToString(f)

\* f'{x:0.1f}' of x = n / 10, n >= 0
Fmt1(n) == ToString(n \div 10) \o "." \o ToString(n % 10)

\* MQTTHandler._parse_data: the topics and values of one reading, in order
_parse_data(c, d) ==
    LET topic_base == _get_topic_base(c)
    IN << <<topic_base \o D("pt").topic, FmtD(d.p1 + d.p2)>>,
          <<topic_base \o D("p1").topic, FmtD(d.p1)>>,
          <<topic_base \o D("p2").topic, FmtD(d.p2)>>,
          <<topic_base \o D("et").topic, Fmt3(d.e1 + d.e2)>>,
          <<topic_base \o D("e1").topic, Fmt3(d.e1)>>,
          <<topic_base \o D("e2").topic, Fmt3(d.e2)>>,
          <<topic_base \o D("lt").topic, Fmt1(d.te1 + d.te2)>>,
          <<topic_base \o D("l1").topic, Fmt1(d.te1)>>,
          <<topic_base \o D("l2").topic, Fmt1(d.te2)>> >>

\* a store that takes the clearing of a topic it does not hold for a message
PublishAll_toggle(ret, msgs, retain) ==
    IF ~retain THEN ret
    ELSE LET touched == {msgs[i][1] : i \in DOMAIN msgs}
         IN [t \in (DOMAIN ret \ touched) \cup (touched \ DOMAIN ret) |->
                IF t \in DOMAIN ret THEN ret[t] ELSE "cleared"]

\* A list of (topic, msg) published in order with _publish: the store holds, for
\* each topic of the list, the last message published to it.
PublishAll(ret, msgs, retain) ==
    IF ~retain THEN ret
    ELSE LET touched == {msgs[i][1] : i \in DOMAIN msgs}
             LastMsg(t) ==
                 LET i == CHOOSE i \in DOMAIN msgs :
                              /\ msgs[i][1] = t
                              /\ \A j \in DOMAIN msgs : msgs[j][1] = t => j <= i
                 IN msgs[i][2]
             kept == {t \in DOMAIN ret \cup touched :
                          t \in touched => LastMsg(t) \notin {None, ""}}
         IN [t \in kept |-> IF t \in touched THEN LastMsg(t) ELSE ret[t]]

(***************************************************************************)
(* The bodies of the publish operations, after _check_mqtt_connected has   *)
(* returned: the messages each hands to _publish, in order.                *)
(***************************************************************************)
\* publish_max_power, lines 185-188
publish_max_power(c, max_power) ==
    IF max_power.t # "None"
    THEN << <<_get_topic_base(c) \o D("po").topic, ToString(max_power.v)>> >>
    ELSE <<>>

\* a publish_status_power without the test of line 196: no status is sent as off
publish_status_power_always(c, status) ==
    << <<_get_topic_base(c) \o D("ps").topic, IF status.v = 1 THEN "1" ELSE "0">> >>

\* publish_status_power, lines 195-198
publish_status_power(c, status) ==
    IF status.t # "None"
    THEN << <<_get_topic_base(c) \o D("ps").topic, IF status.v = 1 THEN "1" ELSE "0">> >>
    ELSE <<>>

\* publish_data, lines 206-209
publish_data(c, d) ==
    IF d.t # "None" THEN _parse_data(c, Readings[d.v]) ELSE <<>>

\* homa_init, lines 242-259
HomaMeta(topic_base, i) ==
    LET homa == mqtt_d[i]
    IN << <<topic_base \o homa.topic \o "/meta/type", homa.type>>,
          <<topic_base \o homa.topic \o "/meta/order", ToString(i)>>,
          <<topic_base \o homa.topic \o "/meta/room", homa.room>>,
          <<topic_base \o homa.topic \o "/meta/unit", homa.unit>> >>

RECURSIVE HomaControls(_, _)
HomaControls(topic_base, i) ==
    IF i > Len(mqtt_d) THEN <<>>
    ELSE HomaMeta(topic_base, i) \o HomaControls(topic_base, i + 1)

homa_name == "Solar PV"
homa_room == "Sensors"

homa_init(c) ==
    LET topic_base == _get_topic_base(c)
        meta_base == Replace(topic_base, "/controls/", "/meta/")
    IN     HomaControls(topic_base, 1) \o
           << <<topic_base \o D("id").topic, ecu_info.deviceId>>,
              <<topic_base \o D("ip").topic, ecu_info.ipAddr>>,
              <<topic_base \o D("ve").topic, ecu_info.devVer>>,
              <<topic_base \o D("ti").topic, start_time>>,
              <<topic_base \o D("wi").topic, "online">>,
              <<meta_base \o "name", homa_name>>,
              <<meta_base \o "room", homa_room>> >>

\* object_id of _hass_config and clear_all_topics
object_id(d) == hass_device_id \o "-" \o Replace(d.topic, " ", "-")

\* the command_topic of a row's registration, None when it has none
hass_command_topic(c, d) ==
    IF d.comp = "number" \/ d.comp = "switch" THEN _get_topic_base(c) \o d.topic \o "/on"
    ELSE None

\* json.dumps(payload) of _hass_config, lines 288-329
hass_payload(c, d) ==
    "{name: " \o d.topic \o ", state_topic: " \o _get_topic_base(c) \o d.topic
    \o ", unique_id: " \o object_id(d) \o ", object_id: " \o object_id(d)
    \o ", device: {identifiers: [" \o hass_device_id \o "], sw_version: " \o ecu_info.devVer \o "}"
    \o (IF d.unit # "" THEN ", unit_of_measurement: " \o d.unit ELSE "")
    \o (IF d.comp = "number"
        THEN ", command_topic: " \o hass_command_topic(c, d)
             \o (IF d.min # 0 THEN ", min: " \o ToString(d.min) ELSE "")
             \o (IF d.max # 0 THEN ", max: " \o ToString(d.max) ELSE "")
        ELSE IF d.comp = "switch"
        THEN ", command_topic: " \o hass_command_topic(c, d)
             \o ", payload_off: 0, payload_on: 1"
        ELSE "")
    \o (IF d.class = "_energy_increasing"
        THEN ", device_class: energy, state_class: total_increasing"
        ELSE IF d.class = "_datetime"
        THEN ", value_template: {{ as_datetime(value) }}, icon: mdi:calendar-arrow-right"
        ELSE IF d.class # None /\ d.class # ""
        THEN ", device_class: " \o d.class
        ELSE "")
    \o "}"

\* _hass_config, lines 279-331: the message it publishes, none for a row
\* without a component
_hass_config(c, d) ==
    IF d.comp = None THEN <<>>
    ELSE << <<"homeassistant/" \o d.comp \o "/" \o object_id(d) \o "/config",
              hass_payload(c, d)>> >>

\* hass_init, lines 273-274
RECURSIVE HassRows(_, _)
HassRows(c, i) ==
    IF i > Len(mqtt_d) THEN <<>>
    ELSE _hass_config(c, mqtt_d[i]) \o HassRows(c, i + 1)

hass_init(c) == HassRows(c, 1)

\* clear_all_topics, lines 348-365: one row of the loop, up to the hass topic
ClearRow(homa_base, d) ==
    << <<topic_prefix \o d.topic, None>>,
       <<homa_base \o d.topic, None>>,
       <<homa_base \o d.topic \o "/meta/type", None>>,
       <<homa_base \o d.topic \o "/meta/order", None>>,
       <<homa_base \o d.topic \o "/meta/room", None>>,
       <<homa_base \o d.topic \o "/meta/unit", None>> >>

\* the hass topic a row's config is cleared at, lines 357-364
ClearHassTopic(d) ==
    IF d.class = "number" THEN "homeassistant/number/" \o object_id(d) \o "/config"
    ELSE IF d.class = "switch" THEN "homeassistant/switch/" \o object_id(d) \o "/config"
    ELSE "homeassistant/sensor/" \o object_id(d) \o "/config"

\* the loop of lines 348-365 from row i on; it breaks at a row whose class is None
RECURSIVE ClearRows(_, _)
ClearRows(homa_base, i) ==
    IF i > Len(mqtt_d) THEN <<>>
    ELSE LET d == mqtt_d[i]
         IN IF d.class = None THEN ClearRow(homa_base, d)
            ELSE ClearRow(homa_base, d) \o << <<ClearHassTopic(d), None>> >>
                 \o ClearRows(homa_base, i + 1)

\* clear_all_topics, lines 341-365
clear_all_topics(c) ==
    LET homa_base == "/devices/" \o homa_systemid \o "/"
    IN << <<homa_base \o "meta/name", None>>, <<homa_base \o "meta/room", None>> >>
       \o ClearRows(homa_base \o "controls/", 1)

(***************************************************************************)
(* A publish operation in progress. Every publish operation of the handler *)
(* starts with _check_mqtt_connected, which blocks its thread in           *)
(* time.sleep(5) between two looks at client.is_connected(); the           *)
(* connection is made and lost on the broker client's own thread.          *)
(***************************************************************************)
_MAX_RETRY == 10

NoPub == [owner |-> "none", id |-> 0, op |-> "none", arg |-> PyNone, retry_count |-> 0]

\* the call of a publish operation: retry_count = 0, line 170
Begin(owner, id, op, arg) ==
    [owner |-> owner, id |-> id, op |-> op, arg |-> arg, retry_count |-> 0]

\* the loop condition of _check_mqtt_connected, line 171
CheckLoops(p) == ~connected /\ p.retry_count < _MAX_RETRY

\* lines 176-178: raise ConnectionError
CheckRaises(p) == p.retry_count = _MAX_RETRY

\* what the operation publishes once the check has returned
Body(p, c) ==
    CASE p.op = "publish_data" -> publish_data(c, p.arg)
      [] p.op = "publish_status_power" -> publish_status_power(c, p.arg)
      [] p.op = "publish_max_power" -> publish_max_power(c, p.arg)
      [] p.op = "hass_init" -> hass_init(c)
      [] p.op = "homa_init" -> homa_init(c)
      [] p.op = "clear_all_topics" -> clear_all_topics(c)

\* the end of a publish operation: it raises and publishes nothing, or hands its
\* messages to the client
Published(p, c) == IF CheckRaises(p) THEN <<>> ELSE Body(p, c)

(***************************************************************************)
(* The command callbacks' parsing of a payload.                            *)
(***************************************************************************)
Char(s, i) == SubSeq(s, i, i)
Digits == "0123456789"
IsDigit(c) == \E i \in 1..Len(Digits) : Char(Digits, i) = c
DigitVal(c) == (CHOOSE i \in 1..Len(Digits) : Char(Digits, i) = c) - 1
IsSpace(c) == c = " "

\* str.strip()
RECURSIVE LStrip(_)
LStrip(s) == IF Len(s) > 0 /\ IsSpace(Char(s, 1)) THEN LStrip(SubSeq(s, 2, Len(s))) ELSE s
RECURSIVE RStrip(_)
RStrip(s) ==
    IF Len(s) > 0 /\ IsSpace(Char(s, Len(s))) THEN RStrip(SubSeq(s, 1, Len(s) - 1)) ELSE s
Strip(s) == RStrip(LStrip(s))

\* the digits of an int literal: digits, with single underscores between them
IsIntBody(b) ==
    /\ Len(b) > 0
    /\ IsDigit(Char(b, 1))
    /\ IsDigit(Char(b, Len(b)))
    /\ \A i \in 1..Len(b) : IsDigit(Char(b, i)) \/ Char(b, i) = "_"
    /\ \A i \in 1..(Len(b) - 1) : ~(Char(b, i) = "_" /\ Char(b, i + 1) = "_")

RECURSIVE IntBodyVal(_, _)
IntBodyVal(b, acc) ==
    IF Len(b) = 0 THEN acc
    ELSE IntBodyVal(SubSeq(b, 2, Len(b)),
                    IF Char(b, 1) = "_" THEN acc ELSE 10 * acc + DigitVal(Char(b, 1)))

\* a parse that takes every text for a number
int_lenient(text) == [ok |-> TRUE, v |-> 0]

\* int(text): the value, or ValueError
int(text) ==
    LET st == Strip(text)
        signed == Len(st) > 0 /\ Char(st, 1) \in {"+", "-"}
        body == IF signed THEN SubSeq(st, 2, Len(st)) ELSE st
    IN IF ~IsIntBody(body) THEN [ok |-> FALSE, v |-> 0]
       ELSE [ok |-> TRUE,
             v |-> IF signed /\ Char(st, 1) = "-" THEN 0 - IntBodyVal(body, 0)
                   ELSE IntBodyVal(body, 0)]

\* status_map of on_status_power, line 80
status_map ==
    [k \in {"0", "off", "false", "1", "on", "true"} |-> k \in {"1", "on", "true"}]

\* the lookup of line 81 without lower()
status_map_get_cased(payload) ==
    IF payload \in DOMAIN status_map THEN PyBool(status_map[payload]) ELSE PyNone

\* status_map.get(message.payload.decode().lower()), line 81
status_map_get(payload) ==
    IF Lower(payload) \in DOMAIN status_map THEN PyBool(status_map[Lower(payload)]) ELSE PyNone



(***************************************************************************)
(* The latest step, as the properties below observe it.                    *)
(***************************************************************************)
NoEv ==
    [kind |-> "none", who |-> "", payload |-> "", arg |-> PyNone, resp |-> PyNone,
     outcome |-> "", raised |-> "", sent |-> <<>>]

\* a callback of the broker client's thread was given a message
MessageEv(topic, payload, arg, outcome) ==
    [NoEv EXCEPT !.kind = "message", !.who = topic, !.payload = payload, !.arg = arg,
                 !.outcome = outcome,
                 !.raised = IF outcome = "ValueError" THEN "ValueError" ELSE ""]

\* a request to the device ended in a task: the call, the argument of a write,
\* what came back, the exception leaving the task, the messages published
CallEv(who, arg, resp, outcome, raised, sent) ==
    [NoEv EXCEPT !.kind = "call_done", !.who = who, !.arg = arg, !.resp = resp,
                 !.outcome = outcome, !.raised = raised, !.sent = sent]

\* a publish operation ended
PublishEv(p, c) ==
    [NoEv EXCEPT !.kind = "publish", !.who = p.op, !.arg = p.arg,
                 !.raised = IF CheckRaises(p) THEN "ConnectionError" ELSE "",
                 !.sent = Published(p, c)]

\* the event loop started a command task
StartEv(coro, arg) == [NoEv EXCEPT !.kind = "task_start", !.who = coro, !.arg = arg]

(***************************************************************************)
(* The broker client's thread.                                             *)
(***************************************************************************)
\* the client of connect_mqtt exists and its network loop runs (loop_start)
ClientStarted == main_pc \in {"handler", "homa_init", "gather"}

\* the connection is made
BrokerConnect ==
    /\ ClientStarted
    /\ ~connected
    /\ connected' = TRUE
    /\ ev' = NoEv
    /\ UNCHANGED <<cfg, retained, pub, ops, main_pc, data, power, cmds, ready, dev, delivered, clock>>

\* the connection is lost
BrokerDisconnect ==
    /\ ClientStarted
    /\ connected
    /\ connected' = FALSE
    /\ ev' = NoEv
    /\ UNCHANGED <<cfg, retained, pub, ops, main_pc, data, power, cmds, ready, dev, delivered, clock>>

(***************************************************************************)
(* SpecHandler: the handler's operations, called one after the other.      *)
(***************************************************************************)
Configs ==
    [homa_enabled : BOOLEAN, hass_enabled : BOOLEAN, debug : BOOLEAN,
     remove : BOOLEAN, stop_at_night : BOOLEAN, ipaddr : BOOLEAN]

IdleTask == [pc |-> "none", resp |-> PyNone]
InitDev == [status |-> 0, max_power |-> 800]

InitHandler ==
    /\ cfg \in {c \in Configs : ~c.remove /\ c.stop_at_night /\ c.ipaddr}
    /\ connected \in BOOLEAN
    /\ retained = NoRetained
    /\ pub = NoPub
    /\ ops = <<>>
    /\ main_pc = "handler"
    /\ data = IdleTask
    /\ power = IdleTask
    /\ cmds = <<>>
    /\ ready = <<>>
    /\ dev = InitDev
    /\ delivered = 0
    /\ ev = NoEv
    /\ clock = 0

\* one turn of the loop of _check_mqtt_connected, lines 172-174
CheckWait ==
    /\ pub.op # "none"
    /\ CheckLoops(pub)
    /\ pub' = [pub EXCEPT !.retry_count = @ + 1]
    /\ ev' = NoEv
    /\ UNCHANGED <<cfg, connected, retained, ops, main_pc, data, power, cmds, ready, dev, delivered, clock>>

\* an operation that checks the connection first
ApiBegin(op, arg) ==
    /\ main_pc = "handler"
    /\ pub.op = "none"
    /\ Len(ops) < MaxOps
    /\ pub' = Begin("api", 0, op, arg)
    /\ ev' = NoEv
    /\ UNCHANGED <<cfg, connected, retained, ops, main_pc, data, power, cmds, ready, dev, delivered, clock>>

\* hass_init / homa_init with the scheme disabled: lines 235-237, 268-270
ApiSkip(op) ==
    /\ main_pc = "handler"
    /\ pub.op = "none"
    /\ Len(ops) < MaxOps
    /\ ops' = Append(ops, op)
    /\ ev' = NoEv
    /\ UNCHANGED <<cfg, connected, retained, pub, main_pc, data, power, cmds, ready, dev, delivered, clock>>

CallHassInit ==
    IF cfg.hass_enabled THEN ApiBegin("hass_init", PyNone) ELSE ApiSkip("hass_init")

CallHomaInit ==
    IF cfg.homa_enabled THEN ApiBegin("homa_init", PyNone) ELSE ApiSkip("homa_init")

CallClearAllTopics == ApiBegin("clear_all_topics", PyNone)

CallPublishData ==
    \E d \in {PyNone} \cup {PyData(i) : i \in 1..Len(Readings)} : ApiBegin("publish_data", d)

CallPublishStatusPower ==
    \E st \in {PyNone, PyBool(TRUE), PyBool(FALSE)} : ApiBegin("publish_status_power", st)

CallPublishMaxPower ==
    \E v \in {PyNone, PyInt(800)} : ApiBegin("publish_max_power", v)

\* the check returns or raises, and the operation ends
ApiFinish ==
    /\ pub.owner = "api"
    /\ ~CheckLoops(pub)
    /\ ev' = PublishEv(pub, cfg)
    /\ retained' = PublishAll(retained, Published(pub, cfg), Retain(cfg))
    /\ ops' = IF CheckRaises(pub) THEN ops ELSE Append(ops, pub.op)
    /\ pub' = NoPub
    /\ UNCHANGED <<cfg, connected, main_pc, data, power, cmds, ready, dev, delivered, clock>>

NextHandler ==
    \/ CallHassInit
    \/ CallHomaInit
    \/ CallClearAllTopics
    \/ CallPublishData
    \/ CallPublishStatusPower
    \/ CallPublishMaxPower
    \/ CheckWait
    \/ ApiFinish
    \/ BrokerConnect
    \/ BrokerDisconnect

SpecHandler == InitHandler /\ [][NextHandler]_vars

(***************************************************************************)
(* Spec: the process. main() and every task run on the one thread of the   *)
(* event loop, each from one await to the next; a publish operation, which *)
(* blocks that thread in time.sleep, is part of the step that calls it.    *)
(* The broker client's thread runs beside it.                              *)
(***************************************************************************)
\* the configuration every option of which is set, and those one option away
BaseConfig ==
    [homa_enabled |-> TRUE, hass_enabled |-> TRUE, debug |-> FALSE,
     remove |-> FALSE, stop_at_night |-> TRUE, ipaddr |-> TRUE]

SpecConfigs ==
    {c \in Configs : Cardinality({f \in DOMAIN c : c[f] # BaseConfig[f]}) <= 1}

\* how a request to the device ends: its result, no result, or an exception
Outcomes == {"ok", "None", "InverterReturnedError", "TimeoutError"}

\* except (InverterReturnedError, HttpBadRequest), main.py lines 67, 91, 118
Caught(o) == o \in {"InverterReturnedError", "HttpBadRequest"}

\* what an awaited request hands to the code after it
Returned(o, resp) == IF o = "ok" THEN resp ELSE PyNone

Task(pc, resp) == [pc |-> pc, resp |-> resp]

\* _check_mqtt_connected run to its end within one step: the turns its loop
\* can take from here (lines 170-174), none when the client is connected. The
\* count matters to what follows only through retry_count == _MAX_RETRY (line
\* 176), so the turns are drawn from the two ends of 1.._MAX_RETRY.
Waits == IF connected THEN {0} ELSE {1, _MAX_RETRY}

\* the publish operation op(arg) as its check leaves the loop after n turns
Call(op, arg, n) == [owner |-> "loop", id |-> 0, op |-> op, arg |-> arg, retry_count |-> n]

\* client.is_connected() as the check leaves the loop: the loop ends early only
\* for a connected client; after _MAX_RETRY turns it ends either way
ConnectedAfter(n) == IF n < _MAX_RETRY THEN {TRUE} ELSE BOOLEAN

\* the publish operation p runs to its end in this step
Publishes(p) ==
    /\ retained' = PublishAll(retained, Published(p, cfg), Retain(cfg))
    /\ connected' \in ConnectedAfter(p.retry_count)

\* the exception a publish operation leaves its caller with
Raised(p) == IF CheckRaises(p) THEN "ConnectionError" ELSE ""

Init ==
    /\ cfg \in SpecConfigs
    /\ connected = FALSE
    /\ retained = NoRetained
    /\ pub = NoPub
    /\ ops = <<>>
    /\ main_pc = "start"
    /\ data = IdleTask
    /\ power = IdleTask
    /\ cmds = <<>>
    /\ ready = <<>>
    /\ dev = InitDev
    /\ delivered = 0
    /\ ev = NoEv
    /\ clock = 0

\* a start that does not look at the device address
MainStart_unchecked ==
    /\ main_pc = "start"
    /\ main_pc' = "await_info"
    /\ ev' = NoEv
    /\ UNCHANGED <<cfg, connected, retained, pub, ops, data, power, cmds, ready, dev, delivered, clock>>

\* main, lines 103-117: without a device address exit(1); else the ECU is made
\* and the request of get_device_info is sent
MainStart ==
    /\ main_pc = "start"
    /\ main_pc' = IF cfg.ipaddr THEN "await_info" ELSE "exit1"
    /\ ev' = NoEv
    /\ UNCHANGED <<cfg, connected, retained, pub, ops, data, power, cmds, ready, dev, delivered, clock>>

\* main, lines 115-130: get_device_info returns or raises; on None the loop
\* sends the request again at once
MainInfoDone ==
    /\ main_pc = "await_info"
    /\ \E o \in Outcomes :
          /\ main_pc' = CASE o = "ok" -> "connect"
                          [] o = "None" -> "await_info"
                          [] Caught(o) -> IF cfg.debug THEN "connect" ELSE "info_sleep"
                          [] OTHER -> o
          /\ ev' = CallEv("get_device_info", PyNone, PyNone, o,
                          IF o \in {"ok", "None"} \/ Caught(o) THEN "" ELSE o, <<>>)
    /\ UNCHANGED <<cfg, connected, retained, pub, ops, data, power, cmds, ready, dev, delivered, clock>>

\* main, line 130: asyncio.sleep(60) is over, and the request is sent again
MainInfoSleep ==
    /\ main_pc = "info_sleep"
    /\ main_pc' = "await_info"
    /\ ev' = NoEv
    /\ UNCHANGED <<cfg, connected, retained, pub, ops, data, power, cmds, ready, dev, delivered, clock>>

\* a main that does not look at -r
MainConnect_no_remove ==
    /\ main_pc = "connect"
    /\ \E n \in {0, 1, _MAX_RETRY} :
          LET p == Call("hass_init", PyNone, n)
          IN /\ Publishes(p)
             /\ ev' = PublishEv(p, cfg)
             /\ main_pc' = IF CheckRaises(p) THEN "ConnectionError" ELSE "homa_init"
    /\ UNCHANGED <<cfg, pub, ops, data, power, cmds, ready, dev, delivered, clock>>

\* main, lines 132-148: MQTTHandler(...), connect_mqtt(), then
\* clear_all_topics and exit(0) with -r, or hass_init
MainConnect ==
    /\ main_pc = "connect"
    /\ \E n \in {0, 1, _MAX_RETRY} :
          LET p == Call(IF cfg.remove THEN "clear_all_topics" ELSE "hass_init", PyNone, n)
          IN IF ~cfg.remove /\ ~cfg.hass_enabled
             THEN /\ main_pc' = "homa_init"
                  /\ ev' = NoEv
                  /\ UNCHANGED <<retained, connected>>
             ELSE /\ Publishes(p)
                  /\ ev' = PublishEv(p, cfg)
                  /\ main_pc' = IF CheckRaises(p) THEN "ConnectionError"
                                ELSE IF cfg.remove THEN "exit0" ELSE "homa_init"
    /\ UNCHANGED <<cfg, pub, ops, data, power, cmds, ready, dev, delivered, clock>>

\* main, lines 149-156: _ecu.city.tzinfo is evaluated (ECU.__init__ sets city
\* only with stop_at_night, ecu.py lines 30-34), homa_init is called, and
\* asyncio.gather starts the periodic tasks
MainHomaInit ==
    /\ main_pc = "homa_init"
    /\ \E n \in Waits :
          LET p == Call("homa_init", PyNone, n)
          IN IF ~cfg.stop_at_night
             THEN /\ main_pc' = "AttributeError"
                  /\ ev' = NoEv
                  /\ UNCHANGED <<retained, connected, data, power>>
             ELSE IF ~cfg.homa_enabled
             THEN /\ main_pc' = "gather"
                  /\ data' = Task("idle", PyNone)
                  /\ power' = Task("idle", PyNone)
                  /\ ev' = NoEv
                  /\ UNCHANGED <<retained, connected>>
             ELSE /\ Publishes(p)
                  /\ ev' = PublishEv(p, cfg)
                  /\ IF CheckRaises(p)
                     THEN main_pc' = "ConnectionError" /\ UNCHANGED <<data, power>>
                     ELSE /\ main_pc' = "gather"
                          /\ data' = Task("idle", PyNone)
                          /\ power' = Task("idle", PyNone)
    /\ UNCHANGED <<cfg, pub, ops, cmds, ready, dev, delivered, clock>>

\* an event loop that would run nothing but the polling between sunrise and sunset
LoopRuns_by_day == main_pc = "gather" /\ data.pc # "night_sleep"

\* the event loop is running the gathered tasks
LoopRuns == main_pc = "gather"

\* ECU.is_night(now), ecu.py lines 44-51: what it can return
IsNight == IF cfg.stop_at_night THEN BOOLEAN ELSE {FALSE}

(***************************************************************************)
(* periodic_get_data, main.py lines 55-74.                                 *)
(***************************************************************************)
\* lines 58-65: a cycle starts; at night it sleeps until wake_up_time, else the
\* request of get_output_data is sent
DataCycle ==
    /\ LoopRuns
    /\ data.pc = "idle"
    /\ \E is_night \in IsNight :
          data' = IF is_night THEN Task("night_sleep", PyNone) ELSE Task("await", PyData(1))
    /\ ev' = NoEv
    /\ UNCHANGED <<cfg, connected, retained, pub, ops, main_pc, power, cmds, ready, dev, delivered, clock>>

\* line 74: the sleep until wake_up_time is over
DataWake ==
    /\ LoopRuns
    /\ data.pc = "night_sleep"
    /\ data' = Task("idle", PyNone)
    /\ ev' = NoEv
    /\ UNCHANGED <<cfg, connected, retained, pub, ops, main_pc, power, cmds, ready, dev, delivered, clock>>

\* lines 65-74: get_output_data returns or raises; publish_data is called with
\* what it returned; an exception the except clause does not name, that of
\* publish_data included, leaves the task, and gather hands it to main
DataDone ==
    /\ LoopRuns
    /\ data.pc = "await"
    /\ \E o \in Outcomes, n \in Waits :
          LET p == Call("publish_data", Returned(o, data.resp), n)
          IN CASE o \in {"ok", "None"} ->
                    /\ Publishes(p)
                    /\ ev' = CallEv("get_output_data", PyNone, p.arg, o, Raised(p),
                                    Published(p, cfg))
                    /\ IF CheckRaises(p)
                       THEN data' = Task("ConnectionError", PyNone) /\ main_pc' = "ConnectionError"
                       ELSE data' = Task("idle", PyNone) /\ main_pc' = main_pc
               [] Caught(o) ->
                    /\ data' = Task("idle", PyNone)
                    /\ ev' = CallEv("get_output_data", PyNone, PyNone, o, "", <<>>)
                    /\ UNCHANGED <<retained, connected, main_pc>>
               [] OTHER ->
                    /\ data' = Task(o, PyNone)
                    /\ main_pc' = o
                    /\ ev' = CallEv("get_output_data", PyNone, PyNone, o, o, <<>>)
                    /\ UNCHANGED <<retained, connected>>
    /\ UNCHANGED <<cfg, pub, ops, power, cmds, ready, dev, delivered, clock>>

(***************************************************************************)
(* periodic_get_power, main.py lines 77-96.                                *)
(***************************************************************************)
\* lines 80-87: a cycle starts; at night it sleeps until wake_up_time +
\* interval, else the request of get_max_power is sent
PowerCycle ==
    /\ LoopRuns
    /\ power.pc = "idle"
    /\ \E is_night \in IsNight :
          power' = IF is_night THEN Task("night_sleep", PyNone)
                   ELSE Task("await_max", PyInt(dev.max_power))
    /\ ev' = NoEv
    /\ UNCHANGED <<cfg, connected, retained, pub, ops, main_pc, data, cmds, ready, dev, delivered, clock>>

\* line 96: the night's sleep is over
PowerWake ==
    /\ LoopRuns
    /\ power.pc = "night_sleep"
    /\ power' = Task("idle", PyNone)
    /\ ev' = NoEv
    /\ UNCHANGED <<cfg, connected, retained, pub, ops, main_pc, data, cmds, ready, dev, delivered, clock>>

\* a request of the task returns or raises, the publish operation op is called
\* with what it returned, and the task goes on to after
PowerCallDone(pc, call, op, after) ==
    /\ LoopRuns
    /\ power.pc = pc
    /\ \E o \in Outcomes, n \in Waits :
          LET p == Call(op, Returned(o, power.resp), n)
          IN CASE o \in {"ok", "None"} ->
                    /\ Publishes(p)
                    /\ ev' = CallEv(call, PyNone, p.arg, o, Raised(p), Published(p, cfg))
                    /\ IF CheckRaises(p)
                       THEN power' = Task("ConnectionError", PyNone) /\ main_pc' = "ConnectionError"
                       ELSE power' = after /\ main_pc' = main_pc
               [] Caught(o) ->
                    /\ power' = Task("idle", PyNone)
                    /\ ev' = CallEv(call, PyNone, PyNone, o, "", <<>>)
                    /\ UNCHANGED <<retained, connected, main_pc>>
               [] OTHER ->
                    /\ power' = Task(o, PyNone)
                    /\ main_pc' = o
                    /\ ev' = CallEv(call, PyNone, PyNone, o, o, <<>>)
                    /\ UNCHANGED <<retained, connected>>
    /\ UNCHANGED <<cfg, pub, ops, data, cmds, ready, dev, delivered, clock>>

\* lines 87-89: get_max_power ends, publish_max_power, and the request of
\* get_status_power is sent (ecu.py lines 67-72: ON when the status is 0)
PowerMaxDone ==
    PowerCallDone("await_max", "get_max_power", "publish_max_power",
                  Task("await_status", PyBool(dev.status = 0)))

\* lines 89-96: get_status_power ends, publish_status_power, and the cycle ends
PowerStatusDone ==
    PowerCallDone("await_status", "get_status_power", "publish_status_power",
                  Task("idle", PyNone))

(***************************************************************************)
(* The command callbacks, on the broker client's thread                    *)
(* (mqtthandler.py lines 77-93), and the hand-off to the event loop        *)
(* (main.py lines 138-139).                                                *)
(***************************************************************************)
\* an inbound message can be delivered: the client's loop runs and it is
\* connected (on_connect has subscribed, lines 65-68)
CanDeliver == ClientStarted /\ connected

\* the inverter serves a write: it takes the value or keeps its own
\* (set_status_power sends "0" for ON, ecu.py line 87)
DevWrite(d, coro, arg, applied) ==
    [status |-> IF applied /\ coro = "async_on_status_power"
                THEN (IF arg.v = 1 THEN 0 ELSE 1) ELSE d.status,
     max_power |-> IF applied /\ coro = "async_on_max_power" THEN arg.v ELSE d.max_power]

\* what the write returns: set_status_power, ecu.py line 90 (result is
\* Status.normal); set_max_power, the device's maxPower
WriteResult(d, coro) ==
    IF coro = "async_on_status_power" THEN PyBool(d.status = 0) ELSE PyInt(d.max_power)

\* a hand-off that is none: the write is made where the callback runs
trigger_direct(status) ==
    /\ dev' = DevWrite(dev, "async_on_status_power", status, TRUE)
    /\ cmds' = Append(cmds, [coro |-> "async_on_status_power", arg |-> status,
                             resp |-> WriteResult(dev', "async_on_status_power")])
    /\ ready' = ready

\* lambda status: _loop.call_soon_threadsafe(asyncio.create_task,
\* async_on_status_power(status)), main.py line 138
trigger_async_on_status_power(status) ==
    /\ ready' = Append(ready, [coro |-> "async_on_status_power", arg |-> status])
    /\ UNCHANGED <<cmds, dev>>

\* lambda value: _loop.call_soon_threadsafe(asyncio.create_task,
\* async_on_max_power(value)), main.py line 139
trigger_async_on_max_power(value) ==
    /\ ready' = Append(ready, [coro |-> "async_on_max_power", arg |-> value])
    /\ UNCHANGED <<cmds, dev>>

\* MQTTHandler.on_status_power, lines 77-86
on_status_power(payload) ==
    /\ CanDeliver
    /\ LET status == status_map_get(payload)
       IN IF status = PyNone
          THEN /\ ev' = MessageEv(D("ps").topic \o "/on", payload, PyNone, "ValueError")
               /\ UNCHANGED <<ready, cmds, dev>>
          ELSE /\ ev' = MessageEv(D("ps").topic \o "/on", payload, status, "dispatched")
               /\ trigger_async_on_status_power(status)
    /\ delivered' = delivered + 1
    /\ UNCHANGED <<cfg, connected, retained, pub, ops, main_pc, data, power, clock>>

\* MQTTHandler.on_max_power, lines 89-93
on_max_power(payload) ==
    /\ CanDeliver
    /\ LET value == int(payload)
       IN IF ~value.ok
          THEN /\ ev' = MessageEv(D("po").topic \o "/on", payload, PyNone, "ValueError")
               /\ UNCHANGED <<ready, cmds, dev>>
          ELSE /\ ev' = MessageEv(D("po").topic \o "/on", payload, PyInt(value.v), "dispatched")
               /\ trigger_async_on_max_power(PyInt(value.v))
    /\ delivered' = delivered + 1
    /\ UNCHANGED <<cfg, connected, retained, pub, ops, main_pc, data, power, clock>>

(***************************************************************************)
(* The command tasks async_on_status_power and async_on_max_power,         *)
(* main.py lines 35-46.                                                    *)
(***************************************************************************)
\* the event loop runs the callback handed to call_soon_threadsafe: the task is
\* created and runs to its await, lines 38 and 45: the write request is sent
RunReady ==
    /\ LoopRuns
    /\ ready # <<>>
    /\ \E applied \in BOOLEAN :
          LET h == Head(ready)
          IN /\ dev' = DevWrite(dev, h.coro, h.arg, applied)
             /\ cmds' = Append(cmds, [coro |-> h.coro, arg |-> h.arg,
                                      resp |-> WriteResult(dev', h.coro)])
             /\ ev' = StartEv(h.coro, h.arg)
    /\ ready' = Tail(ready)
    /\ UNCHANGED <<cfg, connected, retained, pub, ops, main_pc, data, power, delivered, clock>>

\* the publish operation of a command task, lines 39 and 46
CmdPublishOp(coro) ==
    IF coro = "async_on_status_power" THEN "publish_status_power" ELSE "publish_max_power"

\* the value the command asked for, in place of what the write returned
CmdPublishArg_echo(c, o) == IF o = "ok" THEN c.arg ELSE PyNone

\* the value a command task hands to its publish operation: what the write
\* returned, lines 38-39 and 45-46
CmdPublishArg(c, o) == Returned(o, c.resp)

RemoveAt(s, i) == SubSeq(s, 1, i - 1) \o SubSeq(s, i + 1, Len(s))

\* lines 38-39 and 45-46: the write returns and the publish operation is called
\* with what it returned, or the write raises; either way the task ends
CmdDone(i) ==
    /\ LoopRuns
    /\ \E o \in Outcomes, n \in Waits :
          LET c == cmds[i]
              p == Call(CmdPublishOp(c.coro), CmdPublishArg(c, o), n)
          IN IF o \in {"ok", "None"}
             THEN /\ Publishes(p)
                  /\ ev' = CallEv(c.coro, c.arg, Returned(o, c.resp), o, Raised(p),
                                  Published(p, cfg))
             ELSE /\ ev' = CallEv(c.coro, c.arg, PyNone, o, o, <<>>)
                  /\ UNCHANGED <<retained, connected>>
    /\ cmds' = RemoveAt(cmds, i)
    /\ UNCHANGED <<cfg, pub, ops, main_pc, data, power, ready, dev, delivered, clock>>

\* payloads of the inbound messages
StatusPayloads == {"ON", "0", "maybe"}
MaxPayloads == {"500", "5e2"}

Next ==
    \/ MainStart
    \/ MainInfoDone
    \/ MainInfoSleep
    \/ MainConnect
    \/ MainHomaInit
    \/ DataCycle
    \/ DataWake
    \/ DataDone
    \/ PowerCycle
    \/ PowerWake
    \/ PowerMaxDone
    \/ PowerStatusDone
    \/ \E payload \in StatusPayloads : delivered < MaxCmds /\ on_status_power(payload)
    \/ \E payload \in MaxPayloads : delivered < MaxCmds /\ on_max_power(payload)
    \/ RunReady
    \/ \E i \in DOMAIN cmds : CmdDone(i)
    \/ BrokerConnect
    \/ BrokerDisconnect

Spec == Init /\ [][Next]_vars

(***************************************************************************)
(* SpecBridge: the process at night. main() has started the tasks, the     *)
(* periodic tasks sleep until wake_up_time, and commands arrive.           *)
(***************************************************************************)
\* the retained store hass_init and homa_init leave, main.py lines 148-149
StartedRetained(c) ==
    PublishAll(PublishAll(NoRetained,
                          IF c.hass_enabled THEN hass_init(c) ELSE <<>>, Retain(c)),
               IF c.homa_enabled THEN homa_init(c) ELSE <<>>, Retain(c))

InitBridge ==
    /\ cfg \in {c \in SpecConfigs : c.ipaddr /\ c.stop_at_night /\ ~c.remove}
    /\ connected = TRUE
    /\ retained = StartedRetained(cfg)
    /\ pub = NoPub
    /\ ops = <<>>
    /\ main_pc = "gather"
    /\ data = Task("night_sleep", PyNone)
    /\ power = Task("night_sleep", PyNone)
    /\ cmds = <<>>
    /\ ready = <<>>
    /\ dev = InitDev
    /\ delivered = 0
    /\ ev = NoEv
    /\ clock = 0

BridgeStatusPayloads ==
    {"1", "on", "true", "0", "off", "false", "ON", "True", "Off", "FALSE",
     "", "2", "yes", " on", "maybe"}
BridgeMaxPayloads == {"500", " 800 ", "+600", "5e2", "", "50.5", "abc"}

NextBridge ==
    \/ \E payload \in BridgeStatusPayloads :
          delivered < MaxBridgeCmds /\ on_status_power(payload)
    \/ \E payload \in BridgeMaxPayloads :
          delivered < MaxBridgeCmds /\ on_max_power(payload)
    \/ RunReady
    \/ \E i \in DOMAIN cmds : CmdDone(i)
    \/ BrokerConnect
    \/ BrokerDisconnect

SpecBridge == InitBridge /\ [][NextBridge]_vars

\* SpecNight: the process at night with the scheduling of the event loop. The
\* loop runs every callback handed to call_soon_threadsafe, and a request to
\* the device ends, with a response or with the client's timeout (ecu.py
\* lines 22-29).
NextNight ==
    \/ \E payload \in StatusPayloads :
          delivered < MaxBridgeCmds /\ on_status_power(payload)
    \/ \E payload \in MaxPayloads :
          delivered < MaxBridgeCmds /\ on_max_power(payload)
    \/ RunReady
    \/ \E i \in DOMAIN cmds : CmdDone(i)
    \/ BrokerConnect
    \/ BrokerDisconnect

SpecNight ==
    /\ InitBridge
    /\ [][NextNight]_vars
    /\ WF_vars(RunReady)
    /\ WF_vars(\E i \in DOMAIN cmds : CmdDone(i))

(***************************************************************************)
(* SpecWill: the process and a broker that loses the client without a      *)
(* DISCONNECT and publishes the client's last will.                        *)
(***************************************************************************)
\* will_set(_mqtt_d['wi']['topic'], "offline", 1, True), line 147
WillTopic == D("wi").topic
WillPayload == "offline"
WillRetain == TRUE

\* the broker loses the client (no DISCONNECT is ever sent: the process only
\* stops the network loop at exit, line 165) and publishes the will
BrokerDropsClient ==
    /\ ClientStarted
    /\ connected
    /\ connected' = FALSE
    /\ retained' = _publish(retained, WillTopic, WillPayload, WillRetain)
    /\ ev' = [NoEv EXCEPT !.kind = "will", !.who = WillTopic, !.payload = WillPayload]
    /\ UNCHANGED <<cfg, pub, ops, main_pc, data, power, cmds, ready, dev, delivered, clock>>

NextWill ==
    \/ Next
    \/ BrokerDropsClient

SpecWill == Init /\ [][NextWill]_vars

(***************************************************************************)
(* SpecData: publish_data on readings of the device, mqtthandler.py lines  *)
(* 201-228.                                                                *)
(***************************************************************************)
\* the values of a ReturnOutputData: watts, 0.001 kWh of today, 0.1 kWh of
\* the lifetime
DataPowers == {0, 95, 120}
DataEnergies == {0, 7, 50, 987, 1234}
DataLifetimes == {0, 2100, 5432}

DataReadings ==
    [p1 : DataPowers, p2 : DataPowers, e1 : DataEnergies, e2 : DataEnergies,
     te1 : DataLifetimes, te2 : DataLifetimes]

\* the handler is connected and handed one reading
InitData ==
    /\ cfg \in {c \in SpecConfigs : c.ipaddr /\ c.stop_at_night /\ ~c.remove}
    /\ connected = TRUE
    /\ retained = StartedRetained(cfg)
    /\ pub = NoPub
    /\ ops = <<>>
    /\ main_pc = "gather"
    /\ data \in {[pc |-> "await", resp |-> [t |-> "reading", v |-> d]] : d \in DataReadings}
    /\ power = Task("night_sleep", PyNone)
    /\ cmds = <<>>
    /\ ready = <<>>
    /\ dev = InitDev
    /\ delivered = 0
    /\ ev = NoEv
    /\ clock = 0

\* publish_data(data), lines 201-209, of a connected client
PublishReading ==
    /\ data.pc = "await"
    /\ connected
    /\ LET msgs == _parse_data(cfg, data.resp.v)
       IN /\ retained' = PublishAll(retained, msgs, Retain(cfg))
          /\ ev' = [NoEv EXCEPT !.kind = "publish", !.who = "publish_data",
                                !.arg = data.resp, !.sent = msgs]
    /\ data' = [data EXCEPT !.pc = "idle"]
    /\ UNCHANGED <<cfg, connected, pub, ops, main_pc, power, cmds, ready, dev, delivered, clock>>

NextData == PublishReading

SpecData == InitData /\ [][NextData]_vars

(***************************************************************************)
(* SpecClock: the periodic tasks against a clock. Time is counted in ticks;*)
(* a day has DayLen ticks, the sun rises Sunrise ticks and sets Sunset     *)
(* ticks after midnight. A task reads the clock where the code calls       *)
(* datetime.now() or, inside astral's daylight(), takes today's date; the  *)
(* clock may have advanced between two reads of one cycle.                 *)
(***************************************************************************)
DayLen == 6         \* timedelta(days=1), ecu.py line 40
Sunrise == 1        \* daylight(...)[0] of a day, after that day's midnight
Sunset == 3         \* daylight(...)[1] of a day, after that day's midnight
DataInterval == 2   \* conf.ecu_config.update_interval, main.py line 154
PowerInterval == 3  \* periodic_get_power(600), main.py line 155
MaxClock == 10      \* the clock stops here
MaxRuntime == 1     \* ticks the code of one cycle can take between its awaits

\* the client's timeout: the update interval when that is at most 10 s,
\* ecu.py lines 23-25
Timeout == DataInterval

Max(a, b) == IF a > b THEN a ELSE b
Min(a, b) == IF a < b THEN a ELSE b

\* the date astral takes when none is given, at clock reading t
today(t) == t \div DayLen

\* astral.sun.daylight: sunrise and sunset of a day
daylight(day) == <<day * DayLen + Sunrise, day * DayLen + Sunset>>

\* ECU.night() called at clock reading t, ecu.py lines 37-41
night(t) ==
    LET d == daylight(today(t))
        night_end == d[1] + DayLen
        night_start == d[2]
    IN <<night_start, night_end>>

\* ECU.is_night(time) called at clock reading t, ecu.py lines 44-51
is_night(time, t) ==
    LET night_start == night(t)[1]
        night_end == night(t)[2]
    IN cfg.stop_at_night /\ night_start < time /\ time < night_end

\* a wake-up time that is the start of the night
wake_up_time_start(t) == night(t)[1]

\* ECU.wake_up_time() called at clock reading t, ecu.py lines 54-57
wake_up_time(t) == night(t)[2]

\* a sleeptime that is the interval by day and by night
data_sleeptime_interval(night_now, wake, now, interval) == interval

\* periodic_get_data, lines 61-64: sleeptime
data_sleeptime(night_now, wake, now, interval) ==
    IF night_now THEN wake - now ELSE interval

\* a sleeptime of the status task that ends at the wake-up time
power_sleeptime_to_wake(night_now, wake, now, interval) ==
    IF night_now THEN wake - now ELSE interval

\* periodic_get_power, lines 83-86: sleeptime
power_sleeptime(night_now, wake, now, interval) ==
    IF night_now THEN wake - now + interval ELSE interval

\* periodic_get_data, line 72: compensate code runtime
data_compensate(sleeptime, now, now2) == Max(0, sleeptime - (now2 - now))

\* periodic_get_power, lines 94-96: the sleeptime is slept as it is
power_compensate(sleeptime, now, now2) == sleeptime

\* what a task holds of its cycle: now, what is_night(now) returned and the
\* window it compared now with, the requests it sent and when it sent the
\* latest, what wake_up_time() returned, the sleeptime, the time since now
\* when asyncio.sleep is called, the time slept and the time the sleep ends
NoCycle ==
    [now |-> 0, night |-> FALSE, window |-> <<0, 0>>, reads |-> 0, sent |-> 0,
     wake |-> 0, sleeptime |-> 0, elapsed |-> 0, sleep |-> 0, until |-> 0]

ClockTask(pc, resp, cyc) == [pc |-> pc, resp |-> resp, cyc |-> cyc]

\* now = datetime.now() and is_night(now) at clock reading t
StartCycle(now, t) ==
    [NoCycle EXCEPT !.now = now, !.night = is_night(now, t), !.window = night(t)]

\* a request is sent at clock reading t
Sends(cyc, t) == [cyc EXCEPT !.reads = @ + 1, !.sent = t]

\* asyncio.sleep(sleep) is called at clock reading now2
Sleeps(pc, cyc, sleeptime, sleep, now2) ==
    ClockTask(pc, PyNone,
              [cyc EXCEPT !.sleeptime = sleeptime, !.elapsed = now2 - cyc.now,
                          !.sleep = sleep, !.until = now2 + sleep])

\* the clock readings of the code of one cycle, from one on
Readings3(t) ==
    {r \in (t..Min(t + MaxRuntime, MaxClock)) \X (t..Min(t + MaxRuntime, MaxClock))
              \X (t..Min(t + MaxRuntime, MaxClock)) : r[1] <= r[2] /\ r[2] <= r[3]}

AwaitPcs == {"await", "await_max", "await_status"}
SleepPcs == {"night_sleep", "sleep"}

\* the process has started at some time of day 0 and is connected
InitClock ==
    /\ cfg = BaseConfig
    /\ connected = TRUE
    /\ retained = StartedRetained(cfg)
    /\ pub = NoPub
    /\ ops = <<>>
    /\ main_pc = "gather"
    /\ data = ClockTask("idle", PyNone, NoCycle)
    /\ power = ClockTask("idle", PyNone, NoCycle)
    /\ cmds = <<>>
    /\ ready = <<>>
    /\ dev = InitDev
    /\ delivered = 0
    /\ ev = NoEv
    /\ clock \in 0..(DayLen - 1)

\* time passes while the loop waits: a request that is awaited ends within the
\* client's timeout, and the loop's timer ends a sleep when it is due
ClockTick ==
    /\ LoopRuns
    /\ clock < MaxClock
    /\ data.pc \in AwaitPcs => clock - data.cyc.sent < Timeout
    /\ power.pc \in AwaitPcs => clock - power.cyc.sent < Timeout
    /\ data.pc \in SleepPcs => clock < data.cyc.until
    /\ power.pc \in SleepPcs => clock < power.cyc.until
    /\ clock' = clock + 1
    /\ ev' = NoEv
    /\ UNCHANGED <<cfg, connected, retained, pub, ops, main_pc, data, power, cmds, ready, dev, delivered>>

\* periodic_get_data, lines 58-65 and, at night, 69-74: a cycle starts at now;
\* at night the task sleeps until wake_up_time, less the runtime; else the
\* request of get_output_data is sent
ClockDataCycle ==
    /\ LoopRuns
    /\ data.pc = "idle"
    /\ \E r \in Readings3(clock) :
          LET now == clock
              cyc == StartCycle(now, r[1])
              wake == wake_up_time(r[2])
              sleeptime == data_sleeptime(TRUE, wake, now, DataInterval)
          IN IF cyc.night
             THEN /\ data' = Sleeps("night_sleep", [cyc EXCEPT !.wake = wake], sleeptime,
                                    data_compensate(sleeptime, now, r[3]), r[3])
                  /\ clock' = r[3]
             ELSE /\ r[2] = r[1] /\ r[3] = r[1]
                  /\ data' = ClockTask("await", PyData(1), Sends(cyc, r[1]))
                  /\ clock' = r[1]
    /\ ev' = [NoEv EXCEPT !.kind = "cycle", !.who = "periodic_get_data"]
    /\ UNCHANGED <<cfg, connected, retained, pub, ops, main_pc, power, cmds, ready, dev, delivered>>

\* lines 65-74: get_output_data returns or raises, publish_data is called with
\* what it returned, and the task sleeps for the interval, less the runtime
ClockDataDone ==
    /\ LoopRuns
    /\ data.pc = "await"
    /\ \E o \in Outcomes, n \in Waits :
          LET p == Call("publish_data", Returned(o, data.resp), n)
              sleeptime == data_sleeptime(FALSE, 0, data.cyc.now, DataInterval)
              asleep == Sleeps("sleep", data.cyc, sleeptime,
                               data_compensate(sleeptime, data.cyc.now, clock), clock)
          IN CASE o \in {"ok", "None"} ->
                    /\ Publishes(p)
                    /\ ev' = CallEv("get_output_data", PyNone, p.arg, o, Raised(p),
                                    Published(p, cfg))
                    /\ IF CheckRaises(p)
                       THEN /\ data' = ClockTask("ConnectionError", PyNone, data.cyc)
                            /\ main_pc' = "ConnectionError"
                       ELSE data' = asleep /\ main_pc' = main_pc
               [] Caught(o) ->
                    /\ data' = asleep
                    /\ ev' = CallEv("get_output_data", PyNone, PyNone, o, "", <<>>)
                    /\ UNCHANGED <<retained, connected, main_pc>>
               [] OTHER ->
                    /\ data' = ClockTask(o, PyNone, data.cyc)
                    /\ main_pc' = o
                    /\ ev' = CallEv("get_output_data", PyNone, PyNone, o, o, <<>>)
                    /\ UNCHANGED <<retained, connected>>
    /\ UNCHANGED <<cfg, pub, ops, power, cmds, ready, dev, delivered, clock>>

\* line 74: asyncio.sleep returns, not before its time
ClockDataWake ==
    /\ LoopRuns
    /\ data.pc \in SleepPcs
    /\ clock >= data.cyc.until
    /\ data' = ClockTask("idle", PyNone, NoCycle)
    /\ ev' = NoEv
    /\ UNCHANGED <<cfg, connected, retained, pub, ops, main_pc, power, cmds, ready, dev, delivered, clock>>

\* periodic_get_power, lines 80-87 and, at night, 93-96: a cycle starts at now;
\* at night the task sleeps until wake_up_time and for the interval; else the
\* request of get_max_power is sent
ClockPowerCycle ==
    /\ LoopRuns
    /\ power.pc = "idle"
    /\ \E r \in Readings3(clock) :
          LET now == clock
              cyc == StartCycle(now, r[1])
              wake == wake_up_time(r[2])
              sleeptime == power_sleeptime(TRUE, wake, now, PowerInterval)
          IN IF cyc.night
             THEN /\ power' = Sleeps("night_sleep", [cyc EXCEPT !.wake = wake], sleeptime,
                                     power_compensate(sleeptime, now, r[3]), r[3])
                  /\ clock' = r[3]
             ELSE /\ r[2] = r[1] /\ r[3] = r[1]
                  /\ power' = ClockTask("await_max", PyInt(dev.max_power), Sends(cyc, r[1]))
                  /\ clock' = r[1]
    /\ ev' = [NoEv EXCEPT !.kind = "cycle", !.who = "periodic_get_power"]
    /\ UNCHANGED <<cfg, connected, retained, pub, ops, main_pc, data, cmds, ready, dev, delivered>>

\* a request of the task returns or raises, the publish operation op is called
\* with what it returned, and the task goes on to after; the except clause
\* goes on to the sleep of lines 93-96
ClockPowerCallDone(pc, call, op, after) ==
    /\ LoopRuns
    /\ power.pc = pc
    /\ \E o \in Outcomes, n \in Waits :
          LET p == Call(op, Returned(o, power.resp), n)
              sleeptime == power_sleeptime(FALSE, 0, power.cyc.now, PowerInterval)
          IN CASE o \in {"ok", "None"} ->
                    /\ Publishes(p)
                    /\ ev' = CallEv(call, PyNone, p.arg, o, Raised(p), Published(p, cfg))
                    /\ IF CheckRaises(p)
                       THEN /\ power' = ClockTask("ConnectionError", PyNone, power.cyc)
                            /\ main_pc' = "ConnectionError"
                       ELSE power' = after /\ main_pc' = main_pc
               [] Caught(o) ->
                    /\ power' = Sleeps("sleep", power.cyc, sleeptime,
                                       power_compensate(sleeptime, power.cyc.now, clock), clock)
                    /\ ev' = CallEv(call, PyNone, PyNone, o, "", <<>>)
                    /\ UNCHANGED <<retained, connected, main_pc>>
               [] OTHER ->
                    /\ power' = ClockTask(o, PyNone, power.cyc)
                    /\ main_pc' = o
                    /\ ev' = CallEv(call, PyNone, PyNone, o, o, <<>>)
                    /\ UNCHANGED <<retained, connected>>
    /\ UNCHANGED <<cfg, pub, ops, data, cmds, ready, dev, delivered, clock>>

\* lines 87-89: get_max_power ends, publish_max_power, and the request of
\* get_status_power is sent
ClockPowerMaxDone ==
    ClockPowerCallDone("await_max", "get_max_power", "publish_max_power",
                       ClockTask("await_status", PyBool(dev.status = 0),
                                 Sends(power.cyc, clock)))

\* lines 89-96: get_status_power ends, publish_status_power, and the task
\* sleeps for the interval
ClockPowerStatusDone ==
    ClockPowerCallDone("await_status", "get_status_power", "publish_status_power",
                       Sleeps("sleep", power.cyc,
                              power_sleeptime(FALSE, 0, power.cyc.now, PowerInterval),
                              power_compensate(
                                  power_sleeptime(FALSE, 0, power.cyc.now, PowerInterval),
                                  power.cyc.now, clock),
                              clock))

\* line 96: asyncio.sleep returns, not before its time
ClockPowerWake ==
    /\ LoopRuns
    /\ power.pc \in SleepPcs
    /\ clock >= power.cyc.until
    /\ power' = ClockTask("idle", PyNone, NoCycle)
    /\ ev' = NoEv
    /\ UNCHANGED <<cfg, connected, retained, pub, ops, main_pc, data, cmds, ready, dev, delivered, clock>>

NextClock ==
    \/ ClockTick
    \/ ClockDataCycle
    \/ ClockDataDone
    \/ ClockDataWake
    \/ ClockPowerCycle
    \/ ClockPowerMaxDone
    \/ ClockPowerStatusDone
    \/ ClockPowerWake

SpecClock == InitClock /\ [][NextClock]_vars

(***************************************************************************)
(* SpecStart: main() from its start to asyncio.gather, main.py lines       *)
(* 99-156, under every combination of the configuration flags, with the    *)
(* scheduling of the event loop: main is the only task, a request to the   *)
(* device ends, and a sleep ends.                                          *)
(***************************************************************************)
InitStart ==
    /\ cfg \in Configs
    /\ connected = FALSE
    /\ retained = NoRetained
    /\ pub = NoPub
    /\ ops = <<>>
    /\ main_pc = "start"
    /\ data = IdleTask
    /\ power = IdleTask
    /\ cmds = <<>>
    /\ ready = <<>>
    /\ dev = InitDev
    /\ delivered = 0
    /\ ev = NoEv
    /\ clock = 0

NextStart ==
    \/ MainStart
    \/ MainInfoDone
    \/ MainInfoSleep
    \/ MainConnect
    \/ MainHomaInit
    \/ BrokerConnect
    \/ BrokerDisconnect

SpecStart ==
    /\ InitStart
    /\ [][NextStart]_vars
    /\ WF_vars(MainStart)
    /\ WF_vars(MainInfoDone)
    /\ WF_vars(MainInfoSleep)
    \* MainConnect and MainHomaInit are enabled exactly while main stands at
    \* their line, and each of their steps leaves it: their weak fairness is
    \* that main does not stand at either line forever.
    /\ []<>(main_pc # "connect")
    /\ []<>(main_pc # "homa_init")

(***************************************************************************)
(* SpecEcu: the construction of the device wrapper, ECU.__init__, ecu.py   *)
(* lines 22-29, for every update interval of the configuration and every   *)
(* timeout argument.  ev holds the call: arg is the update interval, resp  *)
(* the timeout argument and then the timeout the client is made with.      *)
(***************************************************************************)
MaxInterval == 15   \* the largest update interval and timeout argument
min_timeout == 2    \* ecu.py line 23
max_timeout == 10   \* ecu.py line 25

\* conf.ecu_config.update_interval: int(APS_ECU_UPDATE_INTERVAL), config.py
Intervals == -1..MaxInterval

\* the timeout argument: None by default, as main calls it
TimeoutArgs == {PyNone} \cup {PyInt(n) : n \in 0..MaxInterval}

\* lines 24-25: "if not timeout" holds for None and for 0
ecu_timeout(update_interval, timeout) ==
    IF timeout = PyNone \/ timeout.v = 0
    THEN IF update_interval > max_timeout THEN max_timeout ELSE update_interval
    ELSE timeout.v

\* a constructor that takes every timeout
EcuRejects_none(timeout) == FALSE

\* lines 26-27: raise ValueError
EcuRejects(timeout) == timeout <= min_timeout

InitEcu ==
    /\ cfg = BaseConfig
    /\ connected = FALSE
    /\ retained = NoRetained
    /\ pub = NoPub
    /\ ops = <<>>
    /\ main_pc = "start"
    /\ data = IdleTask
    /\ power = IdleTask
    /\ cmds = <<>>
    /\ ready = <<>>
    /\ dev = InitDev
    /\ delivered = 0
    /\ \E i \in Intervals, t \in TimeoutArgs :
          ev = [NoEv EXCEPT !.kind = "ECUConfig", !.arg = PyInt(i), !.resp = t]
    /\ clock = 0

\* ECU.__init__, lines 22-29: the timeout is chosen and checked, and the
\* client is made with it
EcuInit ==
    /\ main_pc = "start"
    /\ ev.kind = "ECUConfig"
    /\ LET timeout == ecu_timeout(ev.arg.v, ev.resp)
       IN /\ ev' = [ev EXCEPT !.kind = "call_done", !.who = "ECU.__init__",
                              !.payload = IF ev.resp = PyNone THEN "" ELSE ToString(ev.resp.v),
                              !.resp = PyInt(timeout),
                              !.outcome = IF EcuRejects(timeout) THEN "ValueError" ELSE "ok",
                              !.raised = IF EcuRejects(timeout) THEN "ValueError" ELSE ""]
          /\ main_pc' = IF EcuRejects(timeout) THEN "ValueError" ELSE "await_info"
    /\ UNCHANGED <<cfg, connected, retained, pub, ops, data, power, cmds, ready, dev, delivered, clock>>

NextEcu == EcuInit

SpecEcu == InitEcu /\ [][NextEcu]_vars

(***************************************************************************)
(* SpecBeat: the event loop's thread with a clock of seconds.  The thread  *)
(* runs one thing at a time: a task from one await to the next, or a       *)
(* callback handed over by call_soon_threadsafe.  A publish operation      *)
(* called by a task keeps the thread, also through the time.sleep(5) of    *)
(* _check_mqtt_connected; the broker client's thread runs beside it.       *)
(* periodic_wakeup wakes the loop every second, main.py lines 49-52.       *)
(***************************************************************************)
Heartbeat == 1       \* asyncio.sleep(1), main.py line 52
RetrySleep == 5      \* time.sleep(5), mqtthandler.py line 174
MaxBeatClock == 8    \* the clock stops here
MaxBeatCmds == 2     \* command messages delivered

\* the loop's thread is inside a publish operation
ThreadHeld == pub.op # "none"

InitBeat ==
    /\ cfg = BaseConfig
    /\ connected \in BOOLEAN
    /\ retained = StartedRetained(cfg)
    /\ pub = NoPub
    /\ ops = <<>>
    /\ main_pc = "gather"
    /\ data = ClockTask("sleep", PyNone, NoCycle)
    /\ power = ClockTask("night_sleep", PyNone, NoCycle)
    /\ cmds = <<>>
    /\ ready = <<>>
    /\ dev = InitDev
    /\ delivered = 0
    /\ ev = NoEv
    /\ clock = 0

\* a second passes: inside time.sleep until its time is over; else in the
\* loop's select, which ends when a timer is due and, by periodic_wakeup, a
\* second after a callback was handed over at the latest
BeatTick ==
    /\ LoopRuns
    /\ clock < MaxBeatClock
    /\ data.pc \in {"sleep", "time_sleep"} => clock < data.cyc.until
    /\ ThreadHeld => data.pc = "time_sleep"
    /\ ~ThreadHeld => \A i \in DOMAIN ready : clock < ready[i].at + Heartbeat
    /\ clock' = clock + 1
    /\ ev' = NoEv
    /\ UNCHANGED <<cfg, connected, retained, pub, ops, main_pc, data, power, cmds, ready, dev, delivered>>

\* periodic_get_data, main.py lines 58-65: asyncio.sleep is over, the cycle
\* starts by day and the request of get_output_data is sent
BeatDataCycle ==
    /\ LoopRuns
    /\ ~ThreadHeld
    /\ data.pc = "sleep"
    /\ clock >= data.cyc.until
    /\ data' = ClockTask("await", PyData(1), Sends(StartCycle(clock, clock), clock))
    /\ ev' = [NoEv EXCEPT !.kind = "cycle", !.who = "periodic_get_data"]
    /\ UNCHANGED <<cfg, connected, retained, pub, ops, main_pc, power, cmds, ready, dev, delivered, clock>>

\* lines 65-66: get_output_data returns and publish_data is called: the thread
\* enters _check_mqtt_connected, mqtthandler.py lines 168-170
BeatDataDone ==
    /\ LoopRuns
    /\ ~ThreadHeld
    /\ data.pc = "await"
    /\ pub' = Begin("loop", 0, "publish_data", data.resp)
    /\ data' = [data EXCEPT !.pc = "publish"]
    /\ ev' = NoEv
    /\ UNCHANGED <<cfg, connected, retained, ops, main_pc, power, cmds, ready, dev, delivered, clock>>

\* _check_mqtt_connected, lines 171-178, and the rest of publish_data: one
\* more turn with time.sleep(5), or the check ends, the operation publishes or
\* raises, and the task goes to asyncio.sleep, main.py lines 69-74
BeatCheck ==
    /\ ThreadHeld
    /\ data.pc = "publish"
    /\ IF CheckLoops(pub)
       THEN /\ pub' = [pub EXCEPT !.retry_count = @ + 1]
            /\ data' = [data EXCEPT !.pc = "time_sleep", !.cyc.until = clock + RetrySleep]
            /\ ev' = NoEv
            /\ UNCHANGED <<retained, main_pc>>
       ELSE /\ ev' = PublishEv(pub, cfg)
            /\ retained' = PublishAll(retained, Published(pub, cfg), Retain(cfg))
            /\ pub' = NoPub
            /\ IF CheckRaises(pub)
               THEN /\ data' = ClockTask("ConnectionError", PyNone, data.cyc)
                    /\ main_pc' = "ConnectionError"
               ELSE /\ data' = Sleeps("sleep", data.cyc, DataInterval,
                                      data_compensate(DataInterval, data.cyc.now, clock),
                                      clock)
                    /\ main_pc' = main_pc
    /\ UNCHANGED <<cfg, connected, ops, power, cmds, ready, dev, delivered, clock>>

\* time.sleep(5) returns, line 174
BeatSleepOver ==
    /\ ThreadHeld
    /\ data.pc = "time_sleep"
    /\ clock >= data.cyc.until
    /\ data' = [data EXCEPT !.pc = "publish"]
    /\ ev' = NoEv
    /\ UNCHANGED <<cfg, connected, retained, pub, ops, main_pc, power, cmds, ready, dev, delivered, clock>>

\* MQTTHandler.on_status_power with a valid payload, mqtthandler.py lines
\* 77-86, and call_soon_threadsafe, main.py line 138: the callback is queued
\* at the clock's reading
BeatMessage(payload) ==
    /\ CanDeliver
    /\ delivered < MaxBeatCmds
    /\ status_map_get(payload) # PyNone
    /\ ready' = Append(ready, [coro |-> "async_on_status_power",
                               arg |-> status_map_get(payload), at |-> clock])
    /\ ev' = MessageEv(D("ps").topic \o "/on", payload, status_map_get(payload), "dispatched")
    /\ delivered' = delivered + 1
    /\ UNCHANGED <<cfg, connected, retained, pub, ops, main_pc, data, power, cmds, dev, clock>>

\* the loop runs a queued callback when its thread is free
BeatRunReady == ~ThreadHeld /\ RunReady

\* a command task ends when the thread is free; its publish operation returns
\* at once when the client is connected
BeatCmdDone == ~ThreadHeld /\ connected /\ \E i \in DOMAIN cmds : CmdDone(i)

NextBeat ==
    \/ BeatTick
    \/ BeatDataCycle
    \/ BeatDataDone
    \/ BeatCheck
    \/ BeatSleepOver
    \/ \E payload \in {"ON", "0"} : BeatMessage(payload)
    \/ BeatRunReady
    \/ BeatCmdDone
    \/ BrokerConnect
    \/ BrokerDisconnect

SpecBeat == InitBeat /\ [][NextBeat]_vars

(***************************************************************************)
(* SpecSub: the broker client after connect_mqtt, mqtthandler.py lines     *)
(* 117-165, under every combination of the scheme flags: the connection    *)
(* comes and goes, on_connect subscribes, and the broker sends the client  *)
(* what it is subscribed to.  The session starts without subscriptions.    *)
(***************************************************************************)
\* connect_mqtt, lines 151-156: message_callback_add
message_callbacks(c) ==
    (_get_topic_base(c) \o D("ps").topic \o "/on" :> "on_status_power")
    @@ (_get_topic_base(c) \o D("po").topic \o "/on" :> "on_max_power")

\* an on_connect that subscribes for the power status alone
on_connect_status_only(c) ==
    << _get_topic_base(c) \o D("ps").topic \o "/on" >>

\* on_connect, lines 62-64: client.subscribe
on_connect(c) ==
    << _get_topic_base(c) \o D("ps").topic \o "/on",
       _get_topic_base(c) \o D("po").topic \o "/on" >>

\* CONNACK return codes: accepted, and refused (not authorised)
ConnackCodes == {0, 5}

InitSub ==
    /\ cfg \in {c \in Configs : c.ipaddr /\ ~c.remove}
    /\ connected = FALSE
    /\ retained = NoRetained
    /\ pub = NoPub
    /\ ops = {}
    /\ main_pc = "handler"
    /\ data = IdleTask
    /\ power = IdleTask
    /\ cmds = <<>>
    /\ ready = <<>>
    /\ dev = InitDev
    /\ delivered = 0
    /\ ev = NoEv
    /\ clock = 0

\* the broker answers a connection attempt and the client calls on_connect,
\* lines 57-68: it subscribes whatever rc is; the broker takes the
\* subscriptions of a connected client only
SubConnect ==
    /\ ClientStarted
    /\ ~connected
    /\ \E rc \in ConnackCodes :
          /\ connected' = (rc = 0)
          /\ ops' = IF rc = 0 THEN ops \cup {on_connect(cfg)[i] : i \in DOMAIN on_connect(cfg)}
                    ELSE ops
          /\ ev' = [NoEv EXCEPT !.kind = "on_connect", !.payload = ToString(rc),
                                !.sent = [i \in DOMAIN on_connect(cfg) |->
                                             <<on_connect(cfg)[i], "subscribe">>]]
    /\ UNCHANGED <<cfg, retained, pub, main_pc, data, power, cmds, ready, dev, delivered, clock>>

\* the connection ends: the broker keeps the subscriptions of a persistent
\* session (a client_id is configured, lines 121-122) and drops those of a
\* clean one
SubDisconnect ==
    /\ ClientStarted
    /\ connected
    /\ connected' = FALSE
    /\ ops' \in {ops, {}}
    /\ ev' = NoEv
    /\ UNCHANGED <<cfg, retained, pub, main_pc, data, power, cmds, ready, dev, delivered, clock>>

\* the broker sends a message of a subscribed topic and the client gives it to
\* the callback added for that topic
SubDeliver ==
    /\ delivered < MaxCmds
    /\ \E t \in ops :
          /\ t \in DOMAIN message_callbacks(cfg)
          /\ IF message_callbacks(cfg)[t] = "on_status_power"
             THEN \E payload \in StatusPayloads : on_status_power(payload)
             ELSE \E payload \in MaxPayloads : on_max_power(payload)

NextSub ==
    \/ SubConnect
    \/ SubDisconnect
    \/ SubDeliver

SpecSub == InitSub /\ [][NextSub]_vars

(***************************************************************************)
(* The properties.                                                         *)
(***************************************************************************)
\* the three operations were called in this order and returned
InitThenClear ==
    ops = <<"hass_init", "homa_init", "clear_all_topics">>

\* C1: init (hass_init then homa_init) followed at once by clear_all_topics,
\* from an empty retained store, leaves the retained store empty.
C1_InitThenClearLeavesEmpty == InitThenClear => retained = NoRetained

CmdCoros == {"async_on_status_power", "async_on_max_power"}

\* the latest step ended a command task's write
CmdEnded(e) == e.kind = "call_done" /\ e.who \in CmdCoros

\* the state topic of a command, and the text of a state on it
StateTopic(coro) ==
    _get_topic_base(cfg) \o
    (IF coro = "async_on_status_power" THEN "Power Status" ELSE "Power Max Output")

StateText(v) == IF v.t = "bool" THEN (IF v.v = 1 THEN "1" ELSE "0") ELSE ToString(v.v)

\* what the inverter holds, as a write's answer gives it
DeviceState(coro, d) ==
    IF coro = "async_on_status_power" THEN PyBool(d.status = 0) ELSE PyInt(d.max_power)

\* C2 as stated: a command whose write returned a result is republished exactly
\* once.
C2_WriteOkRepublishes ==
    (CmdEnded(ev) /\ ev.outcome = "ok") => Len(ev.sent) = 1

\* C2: each command taken from the hand-off queue starts exactly one device
\* write, carrying the commanded value; when the write ends, the state the
\* device returned for it (not the value asked for) is republished exactly
\* once, unless the connectivity check of the publish raises ConnectionError;
\* if the write returns no result or raises, or the check raises, nothing is
\* republished and the retained store is unchanged.
C2_WriteThenRepublish ==
    [][ /\ (ready' # ready /\ Len(ready') <= Len(ready)) =>
             /\ ready' = Tail(ready)
             /\ Len(cmds') = Len(cmds) + 1
             /\ SubSeq(cmds', 1, Len(cmds)) = cmds
             /\ cmds'[Len(cmds')].coro = Head(ready).coro
             /\ cmds'[Len(cmds')].arg = Head(ready).arg
             /\ cmds'[Len(cmds')].resp = DeviceState(Head(ready).coro, dev')
             /\ ev'.sent = <<>>
        /\ Len(cmds') > Len(cmds) => ready' = Tail(ready)
        /\ CmdEnded(ev') =>
             /\ Len(cmds') = Len(cmds) - 1
             /\ ready' = ready
             /\ dev' = dev
             /\ \E i \in DOMAIN cmds :
                   /\ cmds' = RemoveAt(cmds, i)
                   /\ cmds[i].coro = ev'.who
                   /\ ev'.outcome = "ok" => ev'.resp = cmds[i].resp
             /\ IF ev'.outcome = "ok" /\ ev'.raised = ""
                THEN ev'.sent = << <<StateTopic(ev'.who), StateText(ev'.resp)>> >>
                ELSE ev'.sent = <<>> /\ retained' = retained
      ]_vars

\* a write returned a state other than the one asked for, and that state was
\* republished
C2_Witness ==
    /\ CmdEnded(ev)
    /\ ev.outcome = "ok"
    /\ ev.raised = ""
    /\ ev.resp # ev.arg
    /\ ev.sent = << <<StateTopic(ev.who), StateText(ev.resp)>> >>

\* the device requests awaiting their response
InFlight ==
    (IF main_pc = "await_info" THEN 1 ELSE 0)
    + (IF data.pc = "await" THEN 1 ELSE 0)
    + (IF power.pc \in {"await_max", "await_status"} THEN 1 ELSE 0)
    + Len(cmds)

\* C3: at no point are two device calls in flight at the same time.
C3_OneDeviceCallInFlight == InFlight <= 1

PeriodicCalls == {"get_output_data", "get_max_power", "get_status_power"}
LivePcs == {"idle", "night_sleep", "await", "await_max", "await_status"}

\* the periodic tasks and the process run on
LoopsAlive == main_pc = "gather" /\ data.pc \in LivePcs /\ power.pc \in LivePcs

\* C4: a failing device call in a telemetry or status cycle never terminates the
\* periodic loops, and nothing is published for that call.
C4_DeviceFailureKeepsLoops ==
    (ev.kind = "call_done" /\ ev.who \in PeriodicCalls
       /\ ev.outcome # "ok" /\ ev.raised # "ConnectionError")
    => (LoopsAlive /\ ev.sent = <<>>)

\* C5: when a publish inside a periodic cycle raises ConnectionError, the
\* periodic tasks and the process do not terminate.
C5_ConnectionErrorKeepsLoops ==
    (ev.kind = "call_done" /\ ev.who \in PeriodicCalls /\ ev.raised = "ConnectionError")
    => LoopsAlive

\* C6: a publish operation waits at most _MAX_RETRY times, and raises
\* ConnectionError, publishing nothing, if and only if the client is not
\* connected as the check ends.
C6_RaisesIffNotConnected ==
    /\ pub.retry_count <= 10
    /\ ev.kind = "publish" =>
          /\ (ev.raised = "ConnectionError") <=> ~connected
          /\ ev.raised = "ConnectionError" => ev.sent = <<>>

\* C7: a max-power read or a power-status read of the status task that returns
\* no value (or raises) publishes nothing in that step, and the retained store,
\* Power Status and Power Max Output with it, is left as it was.
C7_FailedReadPublishesNothing ==
    [][ (ev'.kind = "call_done" /\ ev'.who \in {"get_max_power", "get_status_power"}
           /\ ev'.outcome # "ok")
        => (ev'.sent = <<>> /\ retained' = retained) ]_vars

\* a power-status read returned nothing while an earlier value of Power Status
\* is retained
C7_Witness ==
    /\ ev.kind = "call_done"
    /\ ev.who = "get_status_power"
    /\ ev.outcome = "None"
    /\ ev.raised = ""
    /\ (_get_topic_base(cfg) \o "Power Status") \in DOMAIN retained

StatusCommand(status) == [coro |-> "async_on_status_power", arg |-> PyBool(status)]

\* C8: a power-status payload whose lower-cased text is "1", "on" or "true"
\* dispatches True; "0", "off" or "false" dispatches False; any other payload
\* raises ValueError and nothing is dispatched.
C8_StatusPayloadMapping ==
    [][ (ev'.kind = "message" /\ ev'.who = "Power Status/on") =>
          LET text == Lower(ev'.payload)
          IN IF text \in {"1", "on", "true"}
             THEN ready' = Append(ready, StatusCommand(TRUE)) /\ ev'.raised = ""
             ELSE IF text \in {"0", "off", "false"}
             THEN ready' = Append(ready, StatusCommand(FALSE)) /\ ev'.raised = ""
             ELSE ev'.raised = "ValueError" /\ UNCHANGED <<ready, cmds, dev>>
      ]_vars

\* a payload in capitals was dispatched as power-off
C8_Witness ==
    /\ ev.kind = "message"
    /\ ev.payload = "FALSE"
    /\ ev.outcome = "dispatched"
    /\ ready # <<>>
    /\ ready[Len(ready)] = StatusCommand(FALSE)

InvalidStatusPayloads == {"", "2", "yes", " on", "maybe"}
InvalidMaxPayloads == {"5e2", "", "50.5", "abc"}

\* the latest step gave a callback a payload that is no command
InvalidMessage(e) ==
    /\ e.kind = "message"
    /\ \/ e.who = "Power Status/on" /\ e.payload \in InvalidStatusPayloads
       \/ e.who = "Power Max Output/on" /\ e.payload \in InvalidMaxPayloads

\* C9: an invalid command is rejected in the callback: ValueError is raised,
\* nothing is handed to the event loop, no write is made, nothing is published.
C9_InvalidRejectedInCallback ==
    [][ InvalidMessage(ev') =>
          /\ ev'.raised = "ValueError"
          /\ ev'.sent = <<>>
          /\ UNCHANGED <<ready, cmds, dev, retained>>
      ]_vars

\* a max-power payload that is no integer was rejected while a command waited
\* in the hand-off queue
C9_Witness ==
    /\ ev.kind = "message"
    /\ ev.who = "Power Max Output/on"
    /\ ev.payload = "5e2"
    /\ ev.raised = "ValueError"
    /\ ready # <<>>

\* C10: a callback of the broker client's thread makes no device write,
\* publishes nothing and changes no task; it only appends to the hand-off
\* queue. A write is started only by the event loop taking a command from that
\* queue.
C10_DeliveryOnlyHandsOff ==
    [][ /\ ev'.kind = "message" =>
             /\ UNCHANGED <<cmds, dev, retained, data, power, main_pc>>
             /\ ev'.sent = <<>>
             /\ ev'.outcome = "dispatched" => Len(ready') = Len(ready) + 1
        /\ Len(cmds') > Len(cmds) =>
             /\ ev'.kind = "task_start"
             /\ main_pc = "gather"
             /\ ready' = Tail(ready)
             /\ delivered' = delivered
      ]_vars

\* a command was handed off while a periodic request awaited its response
C10_Witness ==
    /\ ev.kind = "message"
    /\ ev.outcome = "dispatched"
    /\ data.pc = "await"
    /\ ready # <<>>
    /\ cmds = <<>>

\* the oldest command task of a coroutine among those awaiting their write
Oldest(coro) ==
    CHOOSE i \in DOMAIN cmds :
        cmds[i].coro = coro /\ \A j \in 1..(i - 1) : cmds[j].coro # coro

\* C11: every valid command is handed to the event loop exactly once; the
\* writes are issued in the order of the hand-off queue; and of two commands
\* of one topic the one delivered first is republished first: the command task
\* that ends is the oldest of its coroutine.
C11_CommandsInOrder ==
    [][ /\ (ev'.kind = "message" /\ ev'.outcome = "dispatched") =>
             /\ Len(ready') = Len(ready) + 1
             /\ SubSeq(ready', 1, Len(ready)) = ready
             /\ ready'[Len(ready')].arg = ev'.arg
        /\ Len(cmds') > Len(cmds) =>
             /\ ready' = Tail(ready)
             /\ Len(cmds') = Len(cmds) + 1
             /\ SubSeq(cmds', 1, Len(cmds)) = cmds
             /\ cmds'[Len(cmds')].coro = Head(ready).coro
             /\ cmds'[Len(cmds')].arg = Head(ready).arg
        /\ CmdEnded(ev') => cmds' = RemoveAt(cmds, Oldest(ev'.who))
      ]_vars

\* C15: with stop_at_night disabled no time is night and nothing raises: the
\* startup never ends in an exception for the missing location, and no
\* periodic task sleeps for the night.
C15_NightOffStartsAndReads ==
    ~cfg.stop_at_night =>
        /\ main_pc # "AttributeError"
        /\ data.pc # "night_sleep"
        /\ power.pc # "night_sleep"

\* the topics of a list of (topic, msg)
Topics(msgs) == {msgs[i][1] : i \in DOMAIN msgs}

\* the names of the readings, and their topic in each scheme's namespace
ReadingNames == {mqtt_d[i].topic : i \in 1..Len(mqtt_d)}
HomaTopic(name) == "/devices/" \o homa_systemid \o "/controls/" \o name
PrefixTopic(name) == topic_prefix \o name

\* C19: with both discovery schemes enabled every reading that a device call
\* publishes is published under both namespaces; with only one scheme enabled
\* it is published under that scheme's namespace only.
C19_ReadingInEveryEnabledNamespace ==
    (ev.kind = "call_done" /\ ev.sent # <<>>) =>
        \A name \in ReadingNames :
            /\ (cfg.homa_enabled /\ cfg.hass_enabled) =>
                  (HomaTopic(name) \in Topics(ev.sent)
                      <=> PrefixTopic(name) \in Topics(ev.sent))
            /\ (cfg.homa_enabled /\ ~cfg.hass_enabled) =>
                  PrefixTopic(name) \notin Topics(ev.sent)
            /\ (cfg.hass_enabled /\ ~cfg.homa_enabled) =>
                  HomaTopic(name) \notin Topics(ev.sent)

\* the retained topics that hold a message
Holding(msg) == {t \in DOMAIN retained : retained[t] = msg}

\* C20: the "online" marker and the last will "offline" use the same topic, and
\* the marker is published whenever a discovery scheme is enabled: once the
\* startup has completed with a scheme enabled a retained topic holds the
\* marker or the will, and after the broker has published the will no topic
\* holds "online" any more.
C20_WillReplacesOnline ==
    /\ (main_pc = "gather" /\ Retain(cfg) /\ (cfg.homa_enabled \/ cfg.hass_enabled)) =>
          Holding("online") \cup Holding(WillPayload) # {}
    /\ ev.kind = "will" => Holding("online") = {}

\* both periodic tasks sleep until wake_up_time
TasksAsleep == data.pc = "night_sleep" /\ power.pc = "night_sleep"

\* C12: the handling of commands is not gated by the night: while the polling
\* tasks sleep until wake_up_time, every command handed to the loop has its
\* write started and its task ended (the result republished) without a
\* polling task waking up.
C12_CommandsServedAtNight ==
    /\ []TasksAsleep
    /\ (ready # <<>> \/ cmds # <<>>) ~> (ready = <<>> /\ cmds = <<>>)

\* a command's write succeeded and its result was republished while the
\* polling tasks sleep
C12_Witness ==
    /\ TasksAsleep
    /\ CmdEnded(ev)
    /\ ev.outcome = "ok"
    /\ ev.sent # <<>>

\* a text of digits, a point and exactly k digits, and the number it writes in
\* units of 10^-k
IsDecimal(s, k) ==
    /\ Len(s) > k + 1
    /\ Char(s, Len(s) - k) = "."
    /\ \A i \in (1..Len(s)) \ {Len(s) - k} : IsDigit(Char(s, i))
DecimalVal(s, k) ==
    IntBodyVal(SubSeq(s, 1, Len(s) - k - 1) \o SubSeq(s, Len(s) - k + 1, Len(s)), 0)
IsInteger(s) == Len(s) > 0 /\ \A i \in 1..Len(s) : IsDigit(Char(s, i))

\* the names of the telemetry rows, in the order of the descriptor table
TelemetryNames ==
    <<"Power", "Power P1", "Power P2", "Energy today", "Energy today P1",
      "Energy today P2", "Energy lifetime", "Energy lifetime P1", "Energy lifetime P2">>

\* the reading of the scenario: 120 W, 95 W, 1.234 kWh, 0.987 kWh, 543.2 kWh, 210.0 kWh
ScenarioReading ==
    [p1 |-> 120, p2 |-> 95, e1 |-> 1234, e2 |-> 987, te1 |-> 5432, te2 |-> 2100]

\* C18: a reading is published as one message per telemetry row: Power = p1+p2
\* as an integer, Energy today = e1+e2 with three decimals, Energy lifetime =
\* te1+te2 with one decimal, and the six values of the channels; the scenario
\* reading gives 215, 2.221 and 753.2.
C18_ParseData ==
    (ev.kind = "publish" /\ ev.who = "publish_data" /\ ev.arg.t = "reading") =>
        LET d == ev.arg.v
            m == ev.sent
            v(i) == m[i][2]
        IN /\ Len(m) = 9
           /\ \A i \in 1..9 : m[i][1] = _get_topic_base(cfg) \o TelemetryNames[i]
           /\ \A i \in 1..3 : IsInteger(v(i))
           /\ \A i \in 4..6 : IsDecimal(v(i), 3)
           /\ \A i \in 7..9 : IsDecimal(v(i), 1)
           /\ IntBodyVal(v(1), 0) = d.p1 + d.p2
           /\ IntBodyVal(v(2), 0) = d.p1
           /\ IntBodyVal(v(3), 0) = d.p2
           /\ DecimalVal(v(4), 3) = d.e1 + d.e2
           /\ DecimalVal(v(5), 3) = d.e1
           /\ DecimalVal(v(6), 3) = d.e2
           /\ DecimalVal(v(7), 1) = d.te1 + d.te2
           /\ DecimalVal(v(8), 1) = d.te1
           /\ DecimalVal(v(9), 1) = d.te2
           /\ d = ScenarioReading =>
                 v(1) = "215" /\ v(4) = "2.221" /\ v(7) = "753.2"

\* the scenario reading was published with the hub scheme enabled
C18_Witness ==
    /\ ev.kind = "publish" /\ ev.who = "publish_data"
    /\ ev.arg = [t |-> "reading", v |-> ScenarioReading]
    /\ cfg.homa_enabled
    /\ ev.sent[1] = <<"/devices/123456-solar/controls/Power", "215">>
    /\ ev.sent[4][2] = "2.221"
    /\ ev.sent[7][2] = "753.2"

\* the cycle a periodic task is in
InCycle(task) == task.pc \in AwaitPcs \cup SleepPcs

\* C13: a telemetry cycle that starts at night reads nothing from the device
\* and publishes nothing, and its sleep ends at wake_up_time(): the sleep is
\* wake_up_time - now less the runtime; a cycle that does not start at night
\* sends exactly one request for the output data.
C13_NightCycleSleepsUntilWake ==
    /\ [](data.pc = "night_sleep" =>
            LET c == data.cyc
            IN /\ c.night
               /\ c.reads = 0
               /\ \E t \in c.now..(c.now + c.elapsed) : c.wake = wake_up_time(t)
               /\ c.sleep = Max(0, (c.wake - c.now) - c.elapsed)
               /\ c.until = Max(c.wake, c.now + c.elapsed))
    /\ [](data.pc \in {"await", "sleep"} => ~data.cyc.night /\ data.cyc.reads = 1)
    /\ [][(data.pc = "idle" /\ data'.pc # "idle") =>
            IF data'.cyc.night
            THEN data'.pc = "night_sleep" /\ retained' = retained /\ ev'.sent = <<>>
            ELSE data'.pc = "await"]_vars

\* a telemetry cycle started at night and sleeps until wake_up_time, which is
\* not now + interval
C13_Witness ==
    /\ data.pc = "night_sleep"
    /\ data.cyc.night
    /\ data.cyc.until = data.cyc.wake
    /\ data.cyc.until # data.cyc.now + DataInterval

\* C14: is_night takes the night window as half-open: a cycle whose now is the
\* start of the window finds night, one whose now is the end of the window
\* does not.
C14_NightWindowHalfOpen ==
    \A task \in {data, power} :
        InCycle(task) =>
            LET c == task.cyc
            IN c.night <=> (c.window[1] <= c.now /\ c.now < c.window[2])

\* C16: whenever is_night(now) is true wake_up_time() is later than now, and the
\* night sleeptime of both tasks is strictly positive, also when the day
\* changes between the two calls.
C16_WakeUpAfterNow ==
    \A task \in {data, power} :
        task.pc = "night_sleep" =>
            /\ task.cyc.night
            /\ task.cyc.wake > task.cyc.now
            /\ task.cyc.sleeptime > 0
            /\ task.cyc.sleeptime >= task.cyc.wake - task.cyc.now

\* is_night was called on one day and wake_up_time on the next
C16_Witness ==
    /\ data.pc = "night_sleep"
    /\ data.cyc.night
    /\ data.cyc.wake = data.cyc.window[2] + DayLen
    /\ data.cyc.wake > data.cyc.now

\* C17: in every cycle of both periodic tasks the sleep is max(0, planned -
\* elapsed), never negative, and a cycle whose runtime is less than the
\* planned time ends the planned time after it started.
C17_SleepCompensatesRuntime ==
    \A task \in {data, power} :
        task.pc \in SleepPcs =>
            LET c == task.cyc
            IN /\ c.sleep = Max(0, c.sleeptime - c.elapsed)
               /\ c.sleep >= 0
               /\ c.elapsed < c.sleeptime => c.until = c.now + c.sleeptime

\* the latest operation that returned is op
LastOp(op) == Len(ops) > 0 /\ ops[Len(ops)] = op

C22_NoAddressExitsBeforeNetwork ==
    ~cfg.ipaddr =>
        /\ main_pc \in {"start", "exit1"}
        /\ ev = NoEv
        /\ ~connected
        /\ retained = NoRetained
        /\ data = IdleTask /\ power = IdleTask
        /\ cmds = <<>> /\ ready = <<>> /\ delivered = 0
        /\ dev = InitDev

\* the process has exited with status 1 for the missing address
C22_Witness == ~cfg.ipaddr /\ main_pc = "exit1"

\* the positions of main before the handler is made
BeforeConnect == {"start", "await_info", "info_sleep", "connect"}

C24_InfoRetriesAfterWait ==
    [][(~cfg.debug /\ main_pc = "await_info") =>
          /\ ev'.outcome # "ok" => main_pc' = "info_sleep"
          /\ ev'.outcome = "ok" <=> main_pc' = "connect"]_vars

Dark(t) ==
    \E day \in -1..(MaxClock \div DayLen + 1) :
        daylight(day)[2] < t /\ t < daylight(day + 1)[1]

\* C29: with night mode on, the telemetry task has no request to the device
\* under way that it sent between a day's dusk and the following dawn, the
\* hours after midnight included, whenever the process was started.
C29_NoReadBetweenDuskAndDawn ==
    (cfg.stop_at_night /\ data.pc = "await") => ~Dark(data.cyc.sent)

\* ECU.__init__ has returned a wrapper
Constructed == ev.who = "ECU.__init__" /\ ev.raised = ""

\* C27 as stated: a wrapper is constructed only with an update interval that
\* is at least 3 s above the timeout of its requests.
C27_IntervalAboveTimeout ==
    Constructed => ev.arg.v >= ev.resp.v + 3

\* C27: a wrapper is constructed only with a timeout of its requests of at
\* least 3 s, and the construction is rejected with ValueError exactly when
\* the timeout is 2 s or less; without a timeout argument the timeout is the
\* update interval, at most 10 s, so that the update interval is at least 3 s
\* and not below the timeout.
C27_TimeoutAboveMinimum ==
    ev.who = "ECU.__init__" =>
        /\ Constructed <=> ev.resp.v >= 3
        /\ ~Constructed <=> (ev.raised = "ValueError" /\ main_pc = "ValueError")
        /\ ev.payload \notin {"", "0"} => ToString(ev.resp.v) = ev.payload
        /\ ev.payload \in {"", "0"} =>
              /\ ev.resp.v = Min(ev.arg.v, 10)
              /\ Constructed => (ev.arg.v >= 3 /\ ev.arg.v >= ev.resp.v)

\* a wrapper was constructed, without a timeout argument, with an update
\* interval that is not 3 s above its timeout
C27_Witness ==
    /\ Constructed
    /\ ev.payload = ""
    /\ ev.arg.v = 5
    /\ ev.resp.v = 5

\* C28: when the status task publishes the power status it has read and no
\* command is queued or under way, so that every task has completed, the value
\* it leaves on the Power Status topic is the device's current power status:
\* the publish of a read started before a command's write does not land after
\* that command's republish.
C28_StatusTopicFollowsDevice ==
    (/\ ev.who = "get_status_power" /\ ev.outcome = "ok" /\ ev.raised = ""
     /\ power.pc = "idle" /\ cmds = <<>> /\ ready = <<>>) =>
        ev.sent = << <<StateTopic("async_on_status_power"),
                       StateText(DeviceState("async_on_status_power", dev))>> >>

\* C26: a command handed over by the bridge is started by the event loop within
\* one heartbeat interval of its arrival, whatever the loop's tasks do: no
\* callback stays queued for more than Heartbeat seconds.
C26_CommandStartsWithinHeartbeat ==
    \A i \in DOMAIN ready : clock - ready[i].at <= Heartbeat

\* the two command topics: <topicBase>Power Status/on and
\* <topicBase>Power Max Output/on
CommandTopics ==
    {_get_topic_base(cfg) \o "Power Status/on", _get_topic_base(cfg) \o "Power Max Output/on"}

\* C30: while the client is connected, after the first connection and after
\* every later one, the broker holds exactly the two command topics subscribed
\* for it; they are the topics the message callbacks were added for, and the
\* command_topic of the switch row and of the number row of the Home Assistant
\* registration, the only rows that have one, whatever the scheme flags are.
C30_SubscribedToCommandTopics ==
    /\ connected => ops = CommandTopics
    /\ ev.kind = "on_connect" => {ev.sent[i][1] : i \in DOMAIN ev.sent} = CommandTopics
    /\ DOMAIN message_callbacks(cfg) = CommandTopics
    /\ {hass_command_topic(cfg, mqtt_d[i]) :
           i \in {j \in DOMAIN mqtt_d : mqtt_d[j].comp \in {"switch", "number"}}} = CommandTopics
    /\ \A i \in DOMAIN mqtt_d :
           mqtt_d[i].comp \notin {"switch", "number"} =>
               hass_command_topic(cfg, mqtt_d[i]) = None
    /\ ev.kind = "message" =>
           \E t \in CommandTopics : t = _get_topic_base(cfg) \o ev.who

\* the client has connected again after a message of an earlier connection,
\* with only the HomA scheme enabled
C30_Witness ==
    /\ connected
    /\ ev.kind = "on_connect"
    /\ delivered > 0
    /\ cfg.homa_enabled /\ ~cfg.hass_enabled
    /\ ops = CommandTopics

====
